---- MODULE Spec2Model ----
(***************************************************************************)
(* RapidRed: donor matching/ranking (matching.py) and the blood-request    *)
(* lifecycle handlers (app.py) over the Donor, BloodRequest and            *)
(* Notification tables (models.py).                                        *)
(*                                                                         *)
(* Conventions.  A nullable column holds an optional value: None is {} and *)
(* a value v is {v}.  A Python string is a sequence of one-character       *)
(* strings.  Coordinates are hundredths of a degree; all modelled points   *)
(* lie on the equator, where the haversine formula reduces to R * |dlon|.  *)
(* Distances are metres.  A table is the sequence of its rows in primary   *)
(* key order, a row's id being its index.                                  *)
(***************************************************************************)
EXTENDS Integers, Sequences, FiniteSets, Bags, TLC

VARIABLES donors, requests, notifications, emitted, outcome, call, workers

vars == <<donors, requests, notifications, emitted, outcome, call, workers>>

----------------------------------------------------------------------------
(* Bounds of the model *)

MaxPool == 3

MaxRequests == 1

NumDonors == 2

NumWorkers == 2

MaxRuns == 1

(* Requests in the table a location push scans *)
MaxScan == 2

----------------------------------------------------------------------------
(* Optional values *)

None == {}

Some(v) == {v}

Val(o) == CHOOSE v \in o : TRUE

(* Python truthiness of an optional boolean column *)
Truthy(o) == o # None /\ Val(o)

(* Python truthiness of an optional integer column *)
TruthyInt(o) == o # None /\ Val(o) # 0

----------------------------------------------------------------------------
(* Strings as sequences of characters *)

Upper(c) ==
  CASE c = "a" -> "A" [] c = "b" -> "B" [] c = "o" -> "O" [] c = "p" -> "P"
    [] c = "s" -> "S" [] c = "n" -> "N" [] c = "e" -> "E" [] c = "g" -> "G"
    [] c = "v" -> "V" [] c = "i" -> "I" [] c = "t" -> "T" [] c = "x" -> "X"
    [] OTHER -> c

StrUpper(s) == [i \in 1..Len(s) |-> Upper(s[i])]

IsSpace(c) == c \in {" ", "\t", "\n"}

StripSpaces(s) == SelectSeq(s, LAMBDA c : ~IsSpace(c))

(* str.strip() *)
RECURSIVE StrStrip(_)
StrStrip(s) ==
  IF s = <<>> THEN s
  ELSE IF IsSpace(s[1]) THEN StrStrip(Tail(s))
  ELSE IF IsSpace(s[Len(s)]) THEN StrStrip(SubSeq(s, 1, Len(s) - 1))
  ELSE s

StartsWith(s, p) == Len(s) >= Len(p) /\ SubSeq(s, 1, Len(p)) = p

(* str.replace: left to right, non-overlapping *)
RECURSIVE Replace(_, _, _)
Replace(s, old, new) ==
  IF Len(s) < Len(old) THEN s
  ELSE IF StartsWith(s, old)
       THEN new \o Replace(SubSeq(s, Len(old) + 1, Len(s)), old, new)
       ELSE <<s[1]>> \o Replace(Tail(s), old, new)

----------------------------------------------------------------------------
(* matching.py *)

(* The table with B+ donors listed for A+ recipients *)
COMPATIBILITY_mixed ==
  [g \in {<<"O","-">>, <<"O","+">>, <<"A","-">>, <<"A","+">>,
          <<"B","-">>, <<"B","+">>, <<"A","B","-">>, <<"A","B","+">>} |->
     CASE g = <<"O","-">> -> {<<"O","-">>}
       [] g = <<"O","+">> -> {<<"O","-">>, <<"O","+">>}
       [] g = <<"A","-">> -> {<<"O","-">>, <<"A","-">>}
       [] g = <<"A","+">> -> {<<"O","-">>, <<"O","+">>, <<"A","-">>, <<"A","+">>,
                              <<"B","+">>}
       [] g = <<"B","-">> -> {<<"O","-">>, <<"B","-">>}
       [] g = <<"B","+">> -> {<<"O","-">>, <<"O","+">>, <<"B","-">>, <<"B","+">>}
       [] g = <<"A","B","-">> -> {<<"O","-">>, <<"A","-">>, <<"B","-">>, <<"A","B","-">>}
       [] g = <<"A","B","+">> -> {<<"O","-">>, <<"O","+">>, <<"A","-">>, <<"A","+">>,
                                  <<"B","-">>, <<"B","+">>, <<"A","B","-">>, <<"A","B","+">>}]

COMPATIBILITY ==
  [g \in {<<"O","-">>, <<"O","+">>, <<"A","-">>, <<"A","+">>,
          <<"B","-">>, <<"B","+">>, <<"A","B","-">>, <<"A","B","+">>} |->
     CASE g = <<"O","-">> -> {<<"O","-">>}
       [] g = <<"O","+">> -> {<<"O","-">>, <<"O","+">>}
       [] g = <<"A","-">> -> {<<"O","-">>, <<"A","-">>}
       [] g = <<"A","+">> -> {<<"O","-">>, <<"O","+">>, <<"A","-">>, <<"A","+">>}
       [] g = <<"B","-">> -> {<<"O","-">>, <<"B","-">>}
       [] g = <<"B","+">> -> {<<"O","-">>, <<"O","+">>, <<"B","-">>, <<"B","+">>}
       [] g = <<"A","B","-">> -> {<<"O","-">>, <<"A","-">>, <<"B","-">>, <<"A","B","-">>}
       [] g = <<"A","B","+">> -> {<<"O","-">>, <<"O","+">>, <<"A","-">>, <<"A","+">>,
                                  <<"B","-">>, <<"B","+">>, <<"A","B","-">>, <<"A","B","+">>}]

(* bg is an optional string; the result is an optional string *)
canonical_blood(bg) ==
  IF bg = None \/ Val(bg) = <<>> THEN None
  ELSE LET s0 == StripSpaces(StrUpper(Val(bg)))
           s1 == Replace(s0, <<"P","O","S">>, <<"+">>)
           s2 == Replace(s1, <<"N","E","G">>, <<"-">>)
           s3 == Replace(s2, <<"+","V","E">>, <<"+">>)
           s4 == Replace(s3, <<"-","V","E">>, <<"-">>)
           s5 == Replace(s4, <<"O","P","O","S">>, <<"O","+">>)
           s6 == Replace(s5, <<"O","N","E","G">>, <<"O","-">>)
       IN Some(s6)

Abs(x) == IF x < 0 THEN -x ELSE x

(* Great-circle distance in metres between two points of the equator,      *)
(* coordinates in hundredths of a degree: 6371 km * pi/180 = 111.19493 km  *)
(* per degree.                                                             *)
haversine_distance(lat1, lon1, lat2, lon2) ==
  (11119493 * Abs(lon2 - lon1)) \div 10000

MIN_DAYS == 90

MIN_WEIGHT == 50

MIN_AGE == 18

MAX_AGE == 65

(* The evaluation date: date.today() as year/month/day and as a day number *)
TodayYMD == [year |-> 2025, month |-> 6, day |-> 15]

TodayOrdinal == 1000

AgeFromDob(dob) ==
  TodayYMD.year - dob.year
    - (IF TodayYMD.month < dob.month
          \/ (TodayYMD.month = dob.month /\ TodayYMD.day < dob.day)
       THEN 1 ELSE 0)

(* is_eligible with the cooldown day itself still excluded *)
is_eligible_cooldown_inclusive(donor) ==
  IF ~Truthy(donor.is_available) THEN FALSE
  ELSE IF donor.weight_kg = None \/ Val(donor.weight_kg) < MIN_WEIGHT THEN FALSE
  ELSE LET donor_age == IF donor.age = None /\ donor.dob # None
                        THEN Some(AgeFromDob(Val(donor.dob)))
                        ELSE donor.age
       IN IF donor_age = None \/ Val(donor_age) < MIN_AGE \/ Val(donor_age) > MAX_AGE
          THEN FALSE
          ELSE IF donor.last_donation_date # None
                  /\ TodayOrdinal - Val(donor.last_donation_date) <= MIN_DAYS
               THEN FALSE
               ELSE TRUE

is_eligible(donor) ==
  IF ~Truthy(donor.is_available) THEN FALSE
  ELSE IF donor.weight_kg = None \/ Val(donor.weight_kg) < MIN_WEIGHT THEN FALSE
  ELSE LET donor_age == IF donor.age = None /\ donor.dob # None
                        THEN Some(AgeFromDob(Val(donor.dob)))
                        ELSE donor.age
       IN IF donor_age = None \/ Val(donor_age) < MIN_AGE \/ Val(donor_age) > MAX_AGE
          THEN FALSE
          ELSE IF donor.last_donation_date # None
                  /\ TodayOrdinal - Val(donor.last_donation_date) < MIN_DAYS
               THEN FALSE
               ELSE TRUE

(* app.py: is_donor_eligible, the (eligible, reason) pair as a record; days *)
(* is the number the "Donated N days ago" reason carries                    *)
Verdict(eligible, reason, days) ==
  [eligible |-> eligible, reason |-> reason, days |-> days]

is_donor_eligible(d) ==
  IF ~Truthy(d.is_available) THEN Verdict(FALSE, "Not available", None)
  ELSE IF ~Truthy(d.consent) THEN Verdict(FALSE, "No consent", None)
  ELSE IF d.health_clearance = Some(FALSE)
       THEN Verdict(FALSE, "No health clearance", None)
  ELSE IF d.weight_kg = None THEN Verdict(FALSE, "Weight unknown", None)
  ELSE IF Val(d.weight_kg) < MIN_WEIGHT THEN Verdict(FALSE, "Underweight", None)
  ELSE LET donor_age == IF d.age = None /\ d.dob # None
                        THEN Some(AgeFromDob(Val(d.dob)))
                        ELSE d.age
       IN IF donor_age = None THEN Verdict(FALSE, "Age unknown", None)
          ELSE IF Val(donor_age) < MIN_AGE THEN Verdict(FALSE, "Too young", None)
          ELSE IF Val(donor_age) > MAX_AGE THEN Verdict(FALSE, "Too old", None)
          ELSE IF d.last_donation_date # None
                  /\ TodayOrdinal - Val(d.last_donation_date) < MIN_DAYS
               THEN Verdict(FALSE, "Donated days ago",
                            Some(TodayOrdinal - Val(d.last_donation_date)))
               ELSE Verdict(TRUE, "Eligible", None)

(* The score without the online factor *)
Score_no_boost(dist, online) == <<1000, dist + 100>>

(* A score is the rational num/den: 1/(dist_km + 0.1) = 1000/(dist_m + 100), *)
(* times 1.3 when the donor is online.                                       *)
Score(dist, online) == <<IF online THEN 1300 ELSE 1000, dist + 100>>

ScoreLess(a, b) == a[1] * b[2] < b[1] * a[2]

ScoreEq(a, b) == a[1] * b[2] = b[1] * a[2]

(* list.sort(key=score, reverse=True): stable, descending *)
(* The insertion placing a candidate before the entries of equal score *)
RECURSIVE InsertDesc_before_equals(_, _)
InsertDesc_before_equals(sorted, c) ==
  IF sorted = <<>> THEN <<c>>
  ELSE IF ~ScoreLess(c.score, Head(sorted).score)
       THEN <<c>> \o sorted
       ELSE <<Head(sorted)>> \o InsertDesc_before_equals(Tail(sorted), c)

RECURSIVE InsertDesc(_, _)
InsertDesc(sorted, c) ==
  IF sorted = <<>> THEN <<c>>
  ELSE IF ScoreLess(Head(sorted).score, c.score)
       THEN <<c>> \o sorted
       ELSE <<Head(sorted)>> \o InsertDesc(Tail(sorted), c)

(* The candidates left in enumeration order *)
SortDesc_unsorted(cs) == cs

RECURSIVE SortDesc(_)
SortDesc(cs) ==
  IF cs = <<>> THEN <<>>
  ELSE InsertDesc(SortDesc(SubSeq(cs, 1, Len(cs) - 1)), cs[Len(cs)])

(* Python slice xs[:k], k possibly zero or negative *)
SliceTo(xs, k) ==
  IF k >= 0
  THEN SubSeq(xs, 1, IF k < Len(xs) THEN k ELSE Len(xs))
  ELSE SubSeq(xs, 1, IF Len(xs) + k > 0 THEN Len(xs) + k ELSE 0)

DEFAULT_MAX_DISTANCE_KM == 60

(* The candidate entry of donor row i, or <<>> when the loop skips it *)
Candidate(pool, i, compatible_groups, req_lat, req_lon, max_distance_km) ==
  LET d == pool[i]
      dbg == canonical_blood(Some(d.blood_group))
  IN IF dbg = None \/ Val(dbg) \notin compatible_groups THEN <<>>
     ELSE IF ~is_eligible(d) THEN <<>>
     ELSE IF d.latitude = None \/ d.longitude = None THEN <<>>
     ELSE LET dist == haversine_distance(req_lat, req_lon, Val(d.latitude), Val(d.longitude))
          IN IF dist > max_distance_km * 1000 THEN <<>>
             ELSE <<[id |-> i, dist |-> dist, score |-> Score(dist, Truthy(d.is_online))]>>

RECURSIVE Candidates(_, _, _, _, _, _)
Candidates(pool, n, compatible_groups, req_lat, req_lon, max_distance_km) ==
  IF n = 0 THEN <<>>
  ELSE Candidates(pool, n - 1, compatible_groups, req_lat, req_lon, max_distance_km)
         \o Candidate(pool, n, compatible_groups, req_lat, req_lon, max_distance_km)

(* pool stands for Donor.query.all(); required_group is an optional string *)
find_best_donors(pool, required_group, req_lat, req_lon, max_results, max_distance_km) ==
  LET req_canon == canonical_blood(required_group)
  IN IF req_canon = None \/ Val(req_canon) = <<>> THEN <<>>
     ELSE LET compatible_groups ==
                IF Val(req_canon) \in DOMAIN COMPATIBILITY
                THEN COMPATIBILITY[Val(req_canon)]
                ELSE {Val(req_canon)}
              candidates == Candidates(pool, Len(pool), compatible_groups,
                                       req_lat, req_lon, max_distance_km)
          IN SliceTo(SortDesc(candidates), max_results)

----------------------------------------------------------------------------
(* models.py: rows of the three tables *)

BaseDonor ==
  [blood_group |-> <<"A","+">>, latitude |-> Some(0), longitude |-> Some(0),
   last_donation_date |-> None, is_available |-> Some(TRUE),
   is_online |-> Some(FALSE), last_seen |-> None, dob |-> None, age |-> Some(30),
   weight_kg |-> Some(70), health_clearance |-> Some(TRUE),
   consent |-> Some(TRUE)]

(* Donor rows the ranking is exercised on: one compatible, eligible donor  *)
(* per distance/online combination, one donor per reason to skip, one     *)
(* donor whose group is not a key of COMPATIBILITY, and an O- donor one     *)
(* degree (about 111 km) away.                                              *)
RankProfiles ==
  { BaseDonor,
    [BaseDonor EXCEPT !.longitude = Some(5), !.is_online = Some(TRUE)],
    [BaseDonor EXCEPT !.longitude = Some(5),
                      !.blood_group = <<"o"," ","n","e","g">>],
    [BaseDonor EXCEPT !.longitude = Some(30), !.is_online = Some(TRUE)],
    [BaseDonor EXCEPT !.blood_group = <<"B","+">>],
    [BaseDonor EXCEPT !.longitude = Some(54)],
    [BaseDonor EXCEPT !.longitude = None],
    [BaseDonor EXCEPT !.latitude = None],
    [BaseDonor EXCEPT !.consent = Some(FALSE)],
    [BaseDonor EXCEPT !.health_clearance = Some(FALSE)],
    [BaseDonor EXCEPT !.is_available = Some(FALSE)],
    [BaseDonor EXCEPT !.last_donation_date = Some(TodayOrdinal - 10)],
    [BaseDonor EXCEPT !.weight_kg = None],
    [BaseDonor EXCEPT !.blood_group = <<"X","X">>],
    [BaseDonor EXCEPT !.is_online = Some(TRUE)],
    [BaseDonor EXCEPT !.longitude = Some(100),
                      !.blood_group = <<"O","-">>] }

RECURSIVE SeqsUpTo(_, _)
SeqsUpTo(S, n) ==
  IF n = 0 THEN {<<>>}
  ELSE LET shorter == SeqsUpTo(S, n - 1)
       IN shorter \cup {Append(q, x) : q \in {r \in shorter : Len(r) = n - 1}, x \in S}

RankGroups ==
  {Some(<<"a"," ","p","o","s">>), Some(<<"O","-">>), Some(<<>>), Some(<<"x","x">>)}

RankLons == {0, 1}

RankMaxResults == {-1, 0, 1, 2, 10}

NoCall == [fn |-> "none"]

NoOutcome == [op |-> "none", rid |-> 0, did |-> 0, result |-> "none"]

----------------------------------------------------------------------------
(* canonical_blood as a pure function of its argument *)

(* Spellings of a blood group as users type them: optional padding, the    *)
(* ABO letters in either case, an optional space, and the Rh sign as a      *)
(* symbol, an abbreviation or a word. "X" and the empty sign spell no group.*)
CanonPads == {<<>>, <<" ">>}

CanonABO ==
  {<<"A">>, <<"B">>, <<"A","B">>, <<"O">>, <<"a">>, <<"o">>, <<"a","b">>, <<"X">>}

CanonPlus ==
  {<<"+">>, <<"P","O","S">>, <<"p","o","s">>, <<"+","V","E">>, <<"+","v","e">>,
   <<"p","o","s","i","t","i","v","e">>}

CanonMinus ==
  {<<"-">>, <<"N","E","G">>, <<"n","e","g">>, <<"-","V","E">>, <<"-","v","e">>,
   <<"n","e","g","a","t","i","v","e">>}

Spelling(pad, abo, sep, rh) == pad \o abo \o sep \o rh \o pad

CanonInputs ==
  {None, Some(<<>>)} \cup
  {Some(Spelling(pad, abo, sep, rh)) :
     pad \in CanonPads, abo \in CanonABO, sep \in CanonPads,
     rh \in CanonPlus \cup CanonMinus \cup {<<>>}}

InitCanon ==
  /\ donors = <<>>
  /\ requests = <<>>
  /\ notifications = EmptyBag
  /\ emitted = {}
  /\ outcome = NoOutcome
  /\ call = NoCall
  /\ workers = <<>>

CallCanonicalBlood ==
  /\ call = NoCall
  /\ \E bg \in CanonInputs :
       call' = [fn |-> "canonical_blood", bg |-> bg, result |-> canonical_blood(bg)]
  /\ UNCHANGED <<donors, requests, notifications, emitted, outcome, workers>>

NextCanon == CallCanonicalBlood

SpecCanon == InitCanon /\ [][NextCanon]_vars

----------------------------------------------------------------------------
(* The eligibility rules as pure functions of one donor row *)

OptBool == {Some(TRUE), Some(FALSE), None}

EligWeights == {None, Some(MIN_WEIGHT - 1), Some(MIN_WEIGHT)}

(* <<age, dob>>: an age at and beside each limit, or a birthday on and     *)
(* after the evaluation day MIN_AGE years ago, or neither                   *)
EligAges ==
  {<<None, None>>, <<Some(MIN_AGE - 1), None>>, <<Some(MIN_AGE), None>>,
   <<Some(MAX_AGE), None>>, <<Some(MAX_AGE + 1), None>>,
   <<None, Some([TodayYMD EXCEPT !.year = @ - MIN_AGE])>>,
   <<None, Some([TodayYMD EXCEPT !.year = @ - MIN_AGE, !.day = @ + 1])>>}

EligLastDonations ==
  {None, Some(TodayOrdinal - (MIN_DAYS - 1)), Some(TodayOrdinal - MIN_DAYS),
   Some(TodayOrdinal - (MIN_DAYS + 1))}

EligDonors ==
  {[BaseDonor EXCEPT !.is_available = a, !.consent = c, !.health_clearance = h,
                     !.weight_kg = w, !.age = ad[1], !.dob = ad[2],
                     !.last_donation_date = l] :
     a \in OptBool, c \in OptBool, h \in OptBool, w \in EligWeights,
     ad \in EligAges, l \in EligLastDonations}

InitElig ==
  /\ donors \in {<<d>> : d \in EligDonors}
  /\ requests = <<>>
  /\ notifications = EmptyBag
  /\ emitted = {}
  /\ outcome = NoOutcome
  /\ call = NoCall
  /\ workers = <<>>

(* Both eligibility functions on the donor, and the ranking of a request    *)
(* for the donor's own group at the donor's position                        *)
CallIsEligible ==
  /\ call = NoCall
  /\ call' = [fn |-> "is_eligible",
              result |-> is_eligible(donors[1]),
              app_result |-> is_donor_eligible(donors[1]),
              ranked |-> find_best_donors(donors, Some(donors[1].blood_group),
                                          Val(donors[1].latitude),
                                          Val(donors[1].longitude),
                                          10, DEFAULT_MAX_DISTANCE_KM)]
  /\ UNCHANGED <<donors, requests, notifications, emitted, outcome, workers>>

NextElig == CallIsEligible

SpecElig == InitElig /\ [][NextElig]_vars

----------------------------------------------------------------------------
(* The ranking as a pure function of the donor table and its arguments *)

InitRank ==
  /\ donors \in SeqsUpTo(RankProfiles, MaxPool)
  /\ requests = <<>>
  /\ notifications = EmptyBag
  /\ emitted = {}
  /\ outcome = NoOutcome
  /\ call = NoCall
  /\ workers = <<>>

(* find_best_donors run with a write to the rows it returns *)
CallFindBestDonors_touching ==
  /\ call = NoCall
  /\ \E g \in RankGroups, lon \in RankLons, k \in RankMaxResults :
       LET result == find_best_donors(donors, g, 0, lon, k, DEFAULT_MAX_DISTANCE_KM)
       IN /\ call' = [fn |-> "find_best_donors", required_group |-> g,
                      req_lat |-> 0, req_lon |-> lon, max_results |-> k,
                      max_distance_km |-> DEFAULT_MAX_DISTANCE_KM,
                      result |-> result]
          /\ donors' = [i \in DOMAIN donors |->
                          IF \E j \in 1..Len(result) : result[j].id = i
                          THEN [donors[i] EXCEPT !.last_seen = Some(0)]
                          ELSE donors[i]]
  /\ UNCHANGED <<requests, notifications, emitted, outcome, workers>>

CallFindBestDonors ==
  /\ call = NoCall
  /\ \E g \in RankGroups, lon \in RankLons, k \in RankMaxResults :
       call' = [fn |-> "find_best_donors", required_group |-> g,
                req_lat |-> 0, req_lon |-> lon, max_results |-> k,
                max_distance_km |-> DEFAULT_MAX_DISTANCE_KM,
                result |-> find_best_donors(donors, g, 0, lon, k,
                                            DEFAULT_MAX_DISTANCE_KM)]
  /\ UNCHANGED <<donors, requests, notifications, emitted, outcome, workers>>

NextRank == CallFindBestDonors

SpecRank == InitRank /\ [][NextRank]_vars

----------------------------------------------------------------------------
(* The registered donors: Donor rows 1..NumDonors *)

Roster(i) ==
  CASE i % 3 = 1 -> BaseDonor
    [] i % 3 = 2 -> [BaseDonor EXCEPT !.blood_group = <<"o"," ","n","e","g">>,
                                      !.latitude = None, !.longitude = None]
    [] OTHER     -> [BaseDonor EXCEPT !.blood_group = <<"B","+">>,
                                      !.longitude = Some(5)]

DonorIds == 1..NumDonors

(* Form inputs of request_blood *)
FormGroups == {<<"A","+">>, <<>>}

FormTopK == {1, 10}

FormCoords == {Some(0), None}

(* Longitudes a donor shares: 1.1 km and 60.05 km from a request at 0 *)
ShareLons == {Some(1), Some(54), None}

Timestamp == 1

HOSPITALS == <<"hospitals", 0>>

BROADCAST == <<"broadcast", 0>>

DonorRoom(d) == <<"donor", d>>

Event(name, room, id) == [event |-> name, room |-> room, id |-> id]

Outcome(op, rid, did, result) == [op |-> op, rid |-> rid, did |-> did, result |-> result]

NotifRow(d, r, t) == [donor_id |-> d, request_id |-> r, notif_type |-> t]

(* The existing-row query narrowed to REQUEST rows *)
Existing_request_only(notifs, d, r) ==
  \E row \in BagToSet(notifs) :
    row.donor_id = d /\ row.request_id = r /\ row.notif_type = "REQUEST"

(* Notification.query.filter_by(donor_id=d, request_id=r).first() is not None *)
Existing(notifs, d, r) ==
  \E row \in BagToSet(notifs) : row.donor_id = d /\ row.request_id = r

(* The notify loop over a ranked list: for each ranked donor other than     *)
(* skip without a row for the request, insert a REQUEST row and push to the *)
(* donor's room.  skip is 0 when no donor is excluded.                      *)
RECURSIVE NotifyLoop(_, _, _, _, _)
NotifyLoop(acc, ranked, i, rid, skip) ==
  IF i > Len(ranked) THEN acc
  ELSE LET d == ranked[i].id
       IN IF d = skip \/ Existing(acc.notifs, d, rid)
          THEN NotifyLoop(acc, ranked, i + 1, rid, skip)
          ELSE NotifyLoop(
                 [notifs |-> acc.notifs (+) SetToBag({NotifRow(d, rid, "REQUEST")}),
                  events |-> acc.events \cup {Event("request_notification", DonorRoom(d), rid)}],
                 ranked, i + 1, rid, skip)

DEFAULT_TOP_K == 10

NEARBY_KM == 10

----------------------------------------------------------------------------
(* app.py: the lifecycle handlers, one handler at a time *)

Init ==
  /\ donors = [i \in DonorIds |-> Roster(i)]
  /\ requests = <<>>
  /\ notifications = EmptyBag
  /\ emitted = {}
  /\ outcome = NoOutcome
  /\ call = NoCall
  /\ workers = <<>>

RequestIds == DOMAIN requests

(* request_blood storing the request without notifying the ranked donors *)
request_blood_unnotified(blood, lat, lon, top_k) ==
  /\ Len(requests) < MaxRequests
  /\ IF lat = None \/ lon = None
     THEN /\ outcome' = Outcome("request_blood", 0, 0, "invalid_coordinates")
          /\ emitted' = {}
          /\ UNCHANGED <<requests, notifications>>
     ELSE LET rid == Len(requests) + 1
              br == [required_blood_group |-> StrUpper(StrStrip(blood)),
                     latitude |-> Val(lat), longitude |-> Val(lon),
                     status |-> "OPEN", accepted_donor_id |-> None,
                     assigned_at |-> None]
          IN /\ requests' = Append(requests, br)
             /\ notifications' = notifications
             /\ emitted' = {Event("request_created", HOSPITALS, rid)}
             /\ outcome' = Outcome("request_blood", rid, 0, "ok")
  /\ UNCHANGED <<donors, call, workers>>

request_blood(blood, lat, lon, top_k) ==
  /\ Len(requests) < MaxRequests
  /\ IF lat = None \/ lon = None
     THEN /\ outcome' = Outcome("request_blood", 0, 0, "invalid_coordinates")
          /\ emitted' = {}
          /\ UNCHANGED <<requests, notifications>>
     ELSE LET rid == Len(requests) + 1
              br == [required_blood_group |-> StrUpper(StrStrip(blood)),
                     latitude |-> Val(lat), longitude |-> Val(lon),
                     status |-> "OPEN", accepted_donor_id |-> None,
                     assigned_at |-> None]
              ranked == find_best_donors(donors, Some(br.required_blood_group),
                                         br.latitude, br.longitude, top_k,
                                         DEFAULT_MAX_DISTANCE_KM)
              done == NotifyLoop([notifs |-> notifications, events |-> {}],
                                 ranked, 1, rid, 0)
          IN /\ requests' = Append(requests, br)
             /\ notifications' = done.notifs
             /\ emitted' = done.events \cup {Event("request_created", HOSPITALS, rid)}
             /\ outcome' = Outcome("request_blood", rid, 0, "ok")
  /\ UNCHANGED <<donors, call, workers>>

(* cancel_request releasing the donor *)
cancel_request_releasing(rid) ==
  /\ requests' = [requests EXCEPT ![rid].status = "CANCELLED",
                                  ![rid].accepted_donor_id = None]
  /\ emitted' = {Event("request_cancelled", HOSPITALS, rid)}
  /\ outcome' = Outcome("cancel_request", rid, 0, "ok")
  /\ UNCHANGED <<donors, notifications, call, workers>>

cancel_request(rid) ==
  /\ requests' = [requests EXCEPT ![rid].status = "CANCELLED"]
  /\ emitted' = {Event("request_cancelled", HOSPITALS, rid)}
  /\ outcome' = Outcome("cancel_request", rid, 0, "ok")
  /\ UNCHANGED <<donors, notifications, call, workers>>

(* accept_request refusing only the closed statuses *)
accept_request_unless_closed(rid, donor_id) ==
  /\ IF requests[rid].status \in {"CANCELLED", "FULFILLED"}
     THEN /\ outcome' = Outcome("accept_request", rid, donor_id, "not_open")
          /\ emitted' = {}
          /\ UNCHANGED requests
     ELSE /\ requests' = [requests EXCEPT ![rid].accepted_donor_id = Some(donor_id),
                                          ![rid].status = "ACCEPTED",
                                          ![rid].assigned_at = Some(Timestamp)]
          /\ emitted' = {Event("request_accepted", HOSPITALS, rid)}
          /\ outcome' = Outcome("accept_request", rid, donor_id, "ok")
  /\ UNCHANGED <<donors, notifications, call, workers>>

accept_request(rid, donor_id) ==
  /\ IF requests[rid].status # "OPEN"
     THEN /\ outcome' = Outcome("accept_request", rid, donor_id, "not_open")
          /\ emitted' = {}
          /\ UNCHANGED requests
     ELSE /\ requests' = [requests EXCEPT ![rid].accepted_donor_id = Some(donor_id),
                                          ![rid].status = "ACCEPTED",
                                          ![rid].assigned_at = Some(Timestamp)]
          /\ emitted' = {Event("request_accepted", HOSPITALS, rid)}
          /\ outcome' = Outcome("accept_request", rid, donor_id, "ok")
  /\ UNCHANGED <<donors, notifications, call, workers>>

(* cancel_assignment checking only that some donor is assigned *)
cancel_assignment_any_donor(rid, donor_id) ==
  /\ IF requests[rid].accepted_donor_id = None
     THEN /\ outcome' = Outcome("cancel_assignment", rid, donor_id, "not_assigned")
          /\ emitted' = {}
          /\ UNCHANGED <<requests, notifications>>
     ELSE LET br == requests[rid]
              ranked == find_best_donors(donors, Some(br.required_blood_group),
                                         br.latitude, br.longitude, DEFAULT_TOP_K,
                                         DEFAULT_MAX_DISTANCE_KM)
              done == NotifyLoop([notifs |-> notifications, events |-> {}],
                                 ranked, 1, rid, donor_id)
          IN /\ requests' = [requests EXCEPT ![rid].accepted_donor_id = None,
                                             ![rid].status = "OPEN",
                                             ![rid].assigned_at = None]
             /\ notifications' = done.notifs
             /\ emitted' = done.events
                             \cup {Event("assignment_cancelled", DonorRoom(donor_id), rid)}
             /\ outcome' = Outcome("cancel_assignment", rid, donor_id, "ok")
  /\ UNCHANGED <<donors, call, workers>>

(* cancel_assignment clearing the donor and leaving the status *)
cancel_assignment_keeping_status(rid, donor_id) ==
  /\ IF requests[rid].accepted_donor_id # Some(donor_id)
     THEN /\ outcome' = Outcome("cancel_assignment", rid, donor_id, "not_assigned")
          /\ emitted' = {}
          /\ UNCHANGED <<requests, notifications>>
     ELSE LET br == requests[rid]
              ranked == find_best_donors(donors, Some(br.required_blood_group),
                                         br.latitude, br.longitude, DEFAULT_TOP_K,
                                         DEFAULT_MAX_DISTANCE_KM)
              done == NotifyLoop([notifs |-> notifications, events |-> {}],
                                 ranked, 1, rid, donor_id)
          IN /\ requests' = [requests EXCEPT ![rid].accepted_donor_id = None,
                                             ![rid].assigned_at = None]
             /\ notifications' = done.notifs
             /\ emitted' = done.events
                             \cup {Event("assignment_cancelled", DonorRoom(donor_id), rid)}
             /\ outcome' = Outcome("cancel_assignment", rid, donor_id, "ok")
  /\ UNCHANGED <<donors, call, workers>>

(* cancel_assignment with nobody excluded from the new round *)
cancel_assignment_renotifying_all(rid, donor_id) ==
  /\ IF requests[rid].accepted_donor_id # Some(donor_id)
     THEN /\ outcome' = Outcome("cancel_assignment", rid, donor_id, "not_assigned")
          /\ emitted' = {}
          /\ UNCHANGED <<requests, notifications>>
     ELSE LET br == requests[rid]
              ranked == find_best_donors(donors, Some(br.required_blood_group),
                                         br.latitude, br.longitude, DEFAULT_TOP_K,
                                         DEFAULT_MAX_DISTANCE_KM)
              done == NotifyLoop([notifs |-> notifications, events |-> {}],
                                 ranked, 1, rid, 0)
          IN /\ requests' = [requests EXCEPT ![rid].accepted_donor_id = None,
                                             ![rid].status = "OPEN",
                                             ![rid].assigned_at = None]
             /\ notifications' = done.notifs
             /\ emitted' = done.events
                             \cup {Event("assignment_cancelled", DonorRoom(donor_id), rid)}
             /\ outcome' = Outcome("cancel_assignment", rid, donor_id, "ok")
  /\ UNCHANGED <<donors, call, workers>>

cancel_assignment(rid, donor_id) ==
  /\ IF requests[rid].accepted_donor_id # Some(donor_id)
     THEN /\ outcome' = Outcome("cancel_assignment", rid, donor_id, "not_assigned")
          /\ emitted' = {}
          /\ UNCHANGED <<requests, notifications>>
     ELSE LET br == requests[rid]
              ranked == find_best_donors(donors, Some(br.required_blood_group),
                                         br.latitude, br.longitude, DEFAULT_TOP_K,
                                         DEFAULT_MAX_DISTANCE_KM)
              done == NotifyLoop([notifs |-> notifications, events |-> {}],
                                 ranked, 1, rid, donor_id)
          IN /\ requests' = [requests EXCEPT ![rid].accepted_donor_id = None,
                                             ![rid].status = "OPEN",
                                             ![rid].assigned_at = None]
             /\ notifications' = done.notifs
             /\ emitted' = done.events
                             \cup {Event("assignment_cancelled", DonorRoom(donor_id), rid)}
             /\ outcome' = Outcome("cancel_assignment", rid, donor_id, "ok")
  /\ UNCHANGED <<donors, call, workers>>

(* hospital_mark_reached without the assigned-donor guard *)
hospital_mark_reached_unguarded(rid) ==
  /\ requests' = [requests EXCEPT ![rid].status = "DONOR_REACHED"]
  /\ emitted' = {Event("request_updated", HOSPITALS, rid)}
  /\ outcome' = Outcome("hospital_mark_reached", rid, 0, "ok")
  /\ UNCHANGED <<donors, notifications, call, workers>>

hospital_mark_reached(rid) ==
  /\ IF ~TruthyInt(requests[rid].accepted_donor_id)
     THEN /\ outcome' = Outcome("hospital_mark_reached", rid, 0, "no_donor_assigned")
          /\ emitted' = {}
          /\ UNCHANGED requests
     ELSE /\ requests' = [requests EXCEPT ![rid].status = "DONOR_REACHED"]
          /\ emitted' = {Event("request_updated", HOSPITALS, rid),
                         Event("request_status_change",
                               DonorRoom(Val(requests[rid].accepted_donor_id)), rid)}
          /\ outcome' = Outcome("hospital_mark_reached", rid, 0, "ok")
  /\ UNCHANGED <<donors, notifications, call, workers>>

hospital_mark_completed(rid) ==
  /\ IF ~TruthyInt(requests[rid].accepted_donor_id)
     THEN /\ outcome' = Outcome("hospital_mark_completed", rid, 0, "no_donor_assigned")
          /\ emitted' = {}
          /\ UNCHANGED requests
     ELSE /\ requests' = [requests EXCEPT ![rid].status = "FULFILLED"]
          /\ emitted' = {Event("request_updated", HOSPITALS, rid),
                         Event("request_status_change",
                               DonorRoom(Val(requests[rid].accepted_donor_id)), rid)}
          /\ outcome' = Outcome("hospital_mark_completed", rid, 0, "ok")
  /\ UNCHANGED <<donors, notifications, call, workers>>

(* hospital_reassign notifying every ranked donor again *)
hospital_reassign_renotifying(rid, top_k) ==
  /\ IF requests[rid].status \in {"CANCELLED", "FULFILLED"}
     THEN /\ outcome' = Outcome("hospital_reassign", rid, 0, "closed")
          /\ emitted' = {}
          /\ UNCHANGED notifications
     ELSE LET br == requests[rid]
              ranked == find_best_donors(donors, Some(br.required_blood_group),
                                         br.latitude, br.longitude, top_k,
                                         DEFAULT_MAX_DISTANCE_KM)
              done == NotifyLoop([notifs |-> EmptyBag, events |-> {}],
                                 ranked, 1, rid, 0)
          IN /\ notifications' = notifications (+) done.notifs
             /\ emitted' = done.events
             /\ outcome' = Outcome("hospital_reassign", rid, 0, "ok")
  /\ UNCHANGED <<donors, requests, call, workers>>

(* hospital_reassign allowed on OPEN requests only *)
hospital_reassign_open_only(rid, top_k) ==
  /\ IF requests[rid].status # "OPEN"
     THEN /\ outcome' = Outcome("hospital_reassign", rid, 0, "closed")
          /\ emitted' = {}
          /\ UNCHANGED notifications
     ELSE LET br == requests[rid]
              ranked == find_best_donors(donors, Some(br.required_blood_group),
                                         br.latitude, br.longitude, top_k,
                                         DEFAULT_MAX_DISTANCE_KM)
              done == NotifyLoop([notifs |-> notifications, events |-> {}],
                                 ranked, 1, rid, 0)
          IN /\ notifications' = done.notifs
             /\ emitted' = done.events
             /\ outcome' = Outcome("hospital_reassign", rid, 0, "ok")
  /\ UNCHANGED <<donors, requests, call, workers>>

hospital_reassign(rid, top_k) ==
  /\ IF requests[rid].status \in {"CANCELLED", "FULFILLED"}
     THEN /\ outcome' = Outcome("hospital_reassign", rid, 0, "closed")
          /\ emitted' = {}
          /\ UNCHANGED notifications
     ELSE LET br == requests[rid]
              ranked == find_best_donors(donors, Some(br.required_blood_group),
                                         br.latitude, br.longitude, top_k,
                                         DEFAULT_MAX_DISTANCE_KM)
              done == NotifyLoop([notifs |-> notifications, events |-> {}],
                                 ranked, 1, rid, 0)
          IN /\ notifications' = done.notifs
             /\ emitted' = done.events
             /\ outcome' = Outcome("hospital_reassign", rid, 0, "ok")
  /\ UNCHANGED <<donors, requests, call, workers>>

(* The scan of handle_donor_share over the requests that are OPEN: a NEARBY *)
(* row for each one within 10 km that has no row for the donor yet.         *)
RECURSIVE NearbyLoop(_, _, _, _)
NearbyLoop(acc, reqs, rid, did) ==
  IF rid > Len(reqs) THEN acc
  ELSE LET br == reqs[rid]
           d == acc.donors[did]
           donor_can == canonical_blood(Some(d.blood_group))
       IN IF br.status # "OPEN" \/ donor_can = None
          THEN NearbyLoop(acc, reqs, rid + 1, did)
          ELSE LET dist == haversine_distance(br.latitude, br.longitude,
                                              Val(d.latitude), Val(d.longitude))
               IN IF dist <= NEARBY_KM * 1000 /\ ~Existing(acc.notifs, did, rid)
                  THEN NearbyLoop(
                         [acc EXCEPT
                            !.notifs = @ (+) SetToBag({NotifRow(did, rid, "NEARBY")}),
                            !.events = @ \cup {Event("nearby_request", DonorRoom(did), rid)}],
                         reqs, rid + 1, did)
                  ELSE NearbyLoop(acc, reqs, rid + 1, did)

(* handle_donor_share scanning only for donors the eligibility rules pass *)
handle_donor_share_eligible_only(donor_id, lat, lon) ==
  /\ IF lat = None \/ lon = None
     THEN /\ outcome' = Outcome("donor_share", 0, donor_id, "invalid")
          /\ emitted' = {}
          /\ UNCHANGED <<donors, notifications>>
     ELSE LET moved == [donors EXCEPT ![donor_id].latitude = lat,
                                      ![donor_id].longitude = lon,
                                      ![donor_id].is_online = Some(TRUE),
                                      ![donor_id].last_seen = Some(Timestamp)]
              done == IF is_eligible(moved[donor_id])
                      THEN NearbyLoop([donors |-> moved, notifs |-> notifications,
                                       events |-> {}], requests, 1, donor_id)
                      ELSE [donors |-> moved, notifs |-> notifications, events |-> {}]
          IN /\ donors' = moved
             /\ notifications' = done.notifs
             /\ emitted' = done.events \cup {Event("donor_updated", BROADCAST, donor_id)}
             /\ outcome' = Outcome("donor_share", 0, donor_id, "ok")
  /\ UNCHANGED <<requests, call, workers>>

handle_donor_share(donor_id, lat, lon) ==
  /\ IF lat = None \/ lon = None
     THEN /\ outcome' = Outcome("donor_share", 0, donor_id, "invalid")
          /\ emitted' = {}
          /\ UNCHANGED <<donors, notifications>>
     ELSE LET moved == [donors EXCEPT ![donor_id].latitude = lat,
                                      ![donor_id].longitude = lon,
                                      ![donor_id].is_online = Some(TRUE),
                                      ![donor_id].last_seen = Some(Timestamp)]
              done == NearbyLoop([donors |-> moved, notifs |-> notifications,
                                  events |-> {}], requests, 1, donor_id)
          IN /\ donors' = moved
             /\ notifications' = done.notifs
             /\ emitted' = done.events \cup {Event("donor_updated", BROADCAST, donor_id)}
             /\ outcome' = Outcome("donor_share", 0, donor_id, "ok")
  /\ UNCHANGED <<requests, call, workers>>

RequestBlood ==
  \E blood \in FormGroups, lat \in {Some(0)}, lon \in FormCoords, top_k \in FormTopK :
    request_blood(blood, lat, lon, top_k)

CancelRequest == \E rid \in RequestIds : cancel_request(rid)

AcceptRequest == \E rid \in RequestIds, d \in DonorIds : accept_request(rid, d)

CancelAssignment == \E rid \in RequestIds, d \in DonorIds : cancel_assignment(rid, d)

MarkReached == \E rid \in RequestIds : hospital_mark_reached(rid)

MarkCompleted == \E rid \in RequestIds : hospital_mark_completed(rid)

Reassign == \E rid \in RequestIds, top_k \in FormTopK : hospital_reassign(rid, top_k)

DonorShare == \E d \in DonorIds, lon \in ShareLons : handle_donor_share(d, Some(0), lon)

Next ==
  \/ RequestBlood
  \/ CancelRequest
  \/ AcceptRequest
  \/ CancelAssignment
  \/ MarkReached
  \/ MarkCompleted
  \/ Reassign
  \/ DonorShare

Spec == Init /\ [][Next]_vars

----------------------------------------------------------------------------
(* app.py: the lifecycle handlers when a push or an SMS send raises.  down  *)
(* is the set of channels whose send raises during the handler; emitted     *)
(* holds what was delivered.  Every send comes after the commit of the      *)
(* change it reports.                                                       *)

SmsTo(d) == <<"sms", d>>

Channels == {HOSPITALS} \cup {DonorRoom(d) : d \in DonorIds} \cup {SmsTo(d) : d \in DonorIds}

(* The outcome of a handler that ranked, with the top_k of its form *)
OutcomeTopK(op, rid, top_k, result) ==
  [op |-> op, rid |-> rid, did |-> 0, result |-> result, top_k |-> top_k]

(* Failures a handler run meets: none, one channel, or every channel *)
DownSets == {{}} \cup {{c} : c \in Channels} \cup {Channels}

(* The break at the first raising send, in place of the swallowing except   *)
RECURSIVE NotifyLoopFailing_aborting(_, _, _, _, _, _, _)
NotifyLoopFailing_aborting(acc, ranked, i, rid, skip, with_sms, down) ==
  IF i > Len(ranked) THEN acc
  ELSE LET d == ranked[i].id
       IN IF d = skip \/ Existing(acc.notifs, d, rid)
          THEN NotifyLoopFailing_aborting(acc, ranked, i + 1, rid, skip, with_sms, down)
          ELSE LET sms == IF with_sms /\ SmsTo(d) \notin down
                          THEN {Event("sms", SmsTo(d), rid)} ELSE {}
                   push == IF DonorRoom(d) \notin down
                           THEN {Event("request_notification", DonorRoom(d), rid)}
                           ELSE {}
                   next == [notifs |-> acc.notifs (+) SetToBag({NotifRow(d, rid, "REQUEST")}),
                            events |-> acc.events \cup sms \cup push]
               IN IF DonorRoom(d) \in down \/ (with_sms /\ SmsTo(d) \in down)
                  THEN next
                  ELSE NotifyLoopFailing_aborting(next, ranked, i + 1, rid, skip,
                                                  with_sms, down)

(* The notify loop with the sends of down raising inside their try blocks;  *)
(* with_sms tells whether the handler also sends the SMS (request_blood).   *)
RECURSIVE NotifyLoopFailing(_, _, _, _, _, _, _)
NotifyLoopFailing(acc, ranked, i, rid, skip, with_sms, down) ==
  IF i > Len(ranked) THEN acc
  ELSE LET d == ranked[i].id
       IN IF d = skip \/ Existing(acc.notifs, d, rid)
          THEN NotifyLoopFailing(acc, ranked, i + 1, rid, skip, with_sms, down)
          ELSE LET sms == IF with_sms /\ SmsTo(d) \notin down
                          THEN {Event("sms", SmsTo(d), rid)} ELSE {}
                   push == IF DonorRoom(d) \notin down
                           THEN {Event("request_notification", DonorRoom(d), rid)}
                           ELSE {}
               IN NotifyLoopFailing(
                    [notifs |-> acc.notifs (+) SetToBag({NotifRow(d, rid, "REQUEST")}),
                     events |-> acc.events \cup sms \cup push],
                    ranked, i + 1, rid, skip, with_sms, down)

request_blood_failing(blood, lat, lon, top_k, down) ==
  /\ Len(requests) < MaxRequests
  /\ IF lat = None \/ lon = None
     THEN /\ outcome' = Outcome("request_blood", 0, 0, "invalid_coordinates")
          /\ emitted' = {}
          /\ UNCHANGED <<requests, notifications>>
     ELSE LET rid == Len(requests) + 1
              br == [required_blood_group |-> StrUpper(StrStrip(blood)),
                     latitude |-> Val(lat), longitude |-> Val(lon),
                     status |-> "OPEN", accepted_donor_id |-> None,
                     assigned_at |-> None]
              ranked == find_best_donors(donors, Some(br.required_blood_group),
                                         br.latitude, br.longitude, top_k,
                                         DEFAULT_MAX_DISTANCE_KM)
              done == NotifyLoopFailing([notifs |-> notifications, events |-> {}],
                                        ranked, 1, rid, 0, TRUE, down)
          IN /\ requests' = Append(requests, br)
             /\ notifications' = done.notifs
             /\ emitted' = done.events
                             \cup (IF HOSPITALS \in down THEN {}
                                   ELSE {Event("request_created", HOSPITALS, rid)})
             /\ outcome' = OutcomeTopK("request_blood", rid, top_k, "ok")
  /\ UNCHANGED <<donors, call, workers>>

(* The emit of cancel_request is outside any try: when it raises the        *)
(* request ends with a server error, after the commit                       *)
cancel_request_failing(rid, down) ==
  /\ requests' = [requests EXCEPT ![rid].status = "CANCELLED"]
  /\ IF HOSPITALS \in down
     THEN /\ emitted' = {}
          /\ outcome' = Outcome("cancel_request", rid, 0, "server_error")
     ELSE /\ emitted' = {Event("request_cancelled", HOSPITALS, rid)}
          /\ outcome' = Outcome("cancel_request", rid, 0, "ok")
  /\ UNCHANGED <<donors, notifications, call, workers>>

accept_request_failing(rid, donor_id, down) ==
  /\ IF requests[rid].status # "OPEN"
     THEN /\ outcome' = Outcome("accept_request", rid, donor_id, "not_open")
          /\ emitted' = {}
          /\ UNCHANGED requests
     ELSE /\ requests' = [requests EXCEPT ![rid].accepted_donor_id = Some(donor_id),
                                          ![rid].status = "ACCEPTED",
                                          ![rid].assigned_at = Some(Timestamp)]
          /\ IF HOSPITALS \in down
             THEN /\ emitted' = {}
                  /\ outcome' = Outcome("accept_request", rid, donor_id, "server_error")
             ELSE /\ emitted' = {Event("request_accepted", HOSPITALS, rid)}
                  /\ outcome' = Outcome("accept_request", rid, donor_id, "ok")
  /\ UNCHANGED <<donors, notifications, call, workers>>

cancel_assignment_failing(rid, donor_id, down) ==
  /\ IF requests[rid].accepted_donor_id # Some(donor_id)
     THEN /\ outcome' = Outcome("cancel_assignment", rid, donor_id, "not_assigned")
          /\ emitted' = {}
          /\ UNCHANGED <<requests, notifications>>
     ELSE LET br == requests[rid]
              ranked == find_best_donors(donors, Some(br.required_blood_group),
                                         br.latitude, br.longitude, DEFAULT_TOP_K,
                                         DEFAULT_MAX_DISTANCE_KM)
              done == NotifyLoopFailing([notifs |-> notifications, events |-> {}],
                                        ranked, 1, rid, donor_id, FALSE, down)
          IN /\ requests' = [requests EXCEPT ![rid].accepted_donor_id = None,
                                             ![rid].status = "OPEN",
                                             ![rid].assigned_at = None]
             /\ notifications' = done.notifs
             /\ emitted' = done.events
                             \cup (IF DonorRoom(donor_id) \in down THEN {}
                                   ELSE {Event("assignment_cancelled",
                                               DonorRoom(donor_id), rid)})
             /\ outcome' = Outcome("cancel_assignment", rid, donor_id, "ok")
  /\ UNCHANGED <<donors, call, workers>>

(* The two emits of the mark handlers share one try block: the first one    *)
(* raising skips the second                                                 *)
StatusPushes(rid, donor_id, down) ==
  IF HOSPITALS \in down THEN {}
  ELSE {Event("request_updated", HOSPITALS, rid)}
         \cup (IF DonorRoom(donor_id) \in down THEN {}
               ELSE {Event("request_status_change", DonorRoom(donor_id), rid)})

hospital_mark_reached_failing(rid, down) ==
  /\ IF ~TruthyInt(requests[rid].accepted_donor_id)
     THEN /\ outcome' = Outcome("hospital_mark_reached", rid, 0, "no_donor_assigned")
          /\ emitted' = {}
          /\ UNCHANGED requests
     ELSE /\ requests' = [requests EXCEPT ![rid].status = "DONOR_REACHED"]
          /\ emitted' = StatusPushes(rid, Val(requests[rid].accepted_donor_id), down)
          /\ outcome' = Outcome("hospital_mark_reached", rid, 0, "ok")
  /\ UNCHANGED <<donors, notifications, call, workers>>

hospital_mark_completed_failing(rid, down) ==
  /\ IF ~TruthyInt(requests[rid].accepted_donor_id)
     THEN /\ outcome' = Outcome("hospital_mark_completed", rid, 0, "no_donor_assigned")
          /\ emitted' = {}
          /\ UNCHANGED requests
     ELSE /\ requests' = [requests EXCEPT ![rid].status = "FULFILLED"]
          /\ emitted' = StatusPushes(rid, Val(requests[rid].accepted_donor_id), down)
          /\ outcome' = Outcome("hospital_mark_completed", rid, 0, "ok")
  /\ UNCHANGED <<donors, notifications, call, workers>>

hospital_reassign_failing(rid, top_k, down) ==
  /\ IF requests[rid].status \in {"CANCELLED", "FULFILLED"}
     THEN /\ outcome' = Outcome("hospital_reassign", rid, 0, "closed")
          /\ emitted' = {}
          /\ UNCHANGED notifications
     ELSE LET br == requests[rid]
              ranked == find_best_donors(donors, Some(br.required_blood_group),
                                         br.latitude, br.longitude, top_k,
                                         DEFAULT_MAX_DISTANCE_KM)
              done == NotifyLoopFailing([notifs |-> notifications, events |-> {}],
                                        ranked, 1, rid, 0, FALSE, down)
          IN /\ notifications' = done.notifs
             /\ emitted' = done.events
             /\ outcome' = OutcomeTopK("hospital_reassign", rid, top_k, "ok")
  /\ UNCHANGED <<donors, requests, call, workers>>

RequestBloodFailing ==
  \E blood \in FormGroups, lat \in {Some(0)}, lon \in FormCoords, top_k \in FormTopK,
     down \in DownSets :
    request_blood_failing(blood, lat, lon, top_k, down)

CancelRequestFailing ==
  \E rid \in RequestIds, down \in DownSets : cancel_request_failing(rid, down)

AcceptRequestFailing ==
  \E rid \in RequestIds, d \in DonorIds, down \in DownSets :
    accept_request_failing(rid, d, down)

CancelAssignmentFailing ==
  \E rid \in RequestIds, d \in DonorIds, down \in DownSets :
    cancel_assignment_failing(rid, d, down)

MarkReachedFailing ==
  \E rid \in RequestIds, down \in DownSets : hospital_mark_reached_failing(rid, down)

MarkCompletedFailing ==
  \E rid \in RequestIds, down \in DownSets :
    hospital_mark_completed_failing(rid, down)

ReassignFailing ==
  \E rid \in RequestIds, top_k \in FormTopK, down \in DownSets :
    hospital_reassign_failing(rid, top_k, down)

NextFailing ==
  \/ RequestBloodFailing
  \/ CancelRequestFailing
  \/ AcceptRequestFailing
  \/ CancelAssignmentFailing
  \/ MarkReachedFailing
  \/ MarkCompletedFailing
  \/ ReassignFailing
  \/ DonorShare

SpecFailing == Init /\ [][NextFailing]_vars

----------------------------------------------------------------------------
(* handle_donor_share on its own: the donor table and the requests table    *)
(* are drawn from the rows the other handlers can leave behind              *)

(* Donors a location push comes from: eligible and compatible; without      *)
(* weight and position; of another group; with the group blanked by the     *)
(* admin edit form                                                          *)
ShareProfiles ==
  { BaseDonor,
    [BaseDonor EXCEPT !.weight_kg = None, !.latitude = None, !.longitude = None],
    [BaseDonor EXCEPT !.blood_group = <<"B","+">>],
    [BaseDonor EXCEPT !.blood_group = <<>>] }

Statuses == {"OPEN", "ACCEPTED", "DONOR_REACHED", "FULFILLED", "CANCELLED"}

(* A request for A+ at the origin as the lifecycle leaves it in a status *)
ShareRequest(status) ==
  LET assigned == status \in {"ACCEPTED", "DONOR_REACHED", "FULFILLED"}
  IN [required_blood_group |-> <<"A","+">>, latitude |-> 0, longitude |-> 0,
      status |-> status,
      accepted_donor_id |-> IF assigned THEN Some(1) ELSE None,
      assigned_at |-> IF assigned THEN Some(Timestamp) ELSE None]

InitShare ==
  /\ donors \in [DonorIds -> ShareProfiles]
  /\ requests \in {q \in SeqsUpTo({ShareRequest(s) : s \in Statuses}, MaxScan) :
                     q # <<>>}
  /\ notifications \in {EmptyBag, SetToBag({NotifRow(1, 1, "REQUEST")})}
  /\ emitted = {}
  /\ outcome = NoOutcome
  /\ call = NoCall
  /\ workers = <<>>

NextShare == DonorShare

SpecShare == InitShare /\ [][NextShare]_vars

----------------------------------------------------------------------------
(* app.py: the same handlers run by concurrent server threads              *)
(* (async_mode="threading").  Each thread has its own ORM session: a row    *)
(* it loaded stays as loaded until its next commit, a commit writes only    *)
(* the columns the thread changed, and every query reads the committed      *)
(* tables.  A thread's steps are its queries and commits.                   *)

Workers == 1..NumWorkers

NoRow ==
  [required_blood_group |-> <<>>, latitude |-> 0, longitude |-> 0,
   status |-> "NONE", accepted_donor_id |-> None, assigned_at |-> None]

Idle(runs, last) ==
  [pc |-> "idle", op |-> "none", rid |-> 0, did |-> 0, top_k |-> 0,
   br |-> NoRow, todo |-> <<>>, runs |-> runs, last |-> last]

(* The tables after one request_blood, optionally followed by one accept *)
InitConc ==
  /\ donors = [i \in DonorIds |-> Roster(i)]
  /\ \E top_k \in FormTopK \cup {0}, acc \in {0} \cup DonorIds :
       LET br == [required_blood_group |-> <<"A","+">>, latitude |-> 0,
                  longitude |-> 0, status |-> "OPEN",
                  accepted_donor_id |-> None, assigned_at |-> None]
           ranked == find_best_donors(donors, Some(br.required_blood_group),
                                      br.latitude, br.longitude, top_k,
                                      DEFAULT_MAX_DISTANCE_KM)
           done == NotifyLoop([notifs |-> EmptyBag, events |-> {}], ranked, 1, 1, 0)
       IN /\ requests = <<IF acc = 0 THEN br
                          ELSE [br EXCEPT !.accepted_donor_id = Some(acc),
                                          !.status = "ACCEPTED",
                                          !.assigned_at = Some(Timestamp)]>>
          /\ notifications = done.notifs
  /\ emitted = {}
  /\ outcome = NoOutcome
  /\ call = NoCall
  /\ workers = [w \in Workers |-> Idle(0, NoOutcome)]

CanStart(w) == workers[w].pc = "idle" /\ workers[w].runs < MaxRuns

Start(w, op, rid, did, top_k, pc) ==
  [workers[w] EXCEPT !.pc = pc, !.op = op, !.rid = rid, !.did = did,
                     !.top_k = top_k,
                     !.br = IF rid = 0 THEN NoRow ELSE requests[rid],
                     !.todo = <<>>, !.runs = @ + 1]

Finish(w, result) ==
  Idle(workers[w].runs,
       Outcome(workers[w].op, workers[w].rid, workers[w].did, result))

Reject(w, op, rid, did, result) ==
  Idle(workers[w].runs + 1, Outcome(op, rid, did, result))

(* UPDATE blood_request SET <the columns whose value differs from the one   *)
(* loaded> WHERE id = rid                                                   *)
Flush(row, loaded, new) ==
  [f \in DOMAIN row |-> IF new[f] # loaded[f] THEN new[f] ELSE row[f]]

IdsOf(ranked) == [i \in 1..Len(ranked) |-> ranked[i].id]

(* accept_request: load and check, then commit *)
AcceptLoad(w) ==
  /\ CanStart(w)
  /\ \E rid \in RequestIds, d \in DonorIds :
       workers' = [workers EXCEPT ![w] =
                     IF requests[rid].status # "OPEN"
                     THEN Reject(w, "accept_request", rid, d, "not_open")
                     ELSE Start(w, "accept_request", rid, d, 0, "commit")]
  /\ emitted' = {}
  /\ UNCHANGED <<donors, requests, notifications, outcome, call>>

AcceptCommit(w) ==
  LET me == workers[w]
  IN /\ me.pc = "commit" /\ me.op = "accept_request"
     /\ requests' = [requests EXCEPT ![me.rid] =
                       Flush(@, me.br, [me.br EXCEPT !.accepted_donor_id = Some(me.did),
                                                     !.status = "ACCEPTED",
                                                     !.assigned_at = Some(Timestamp)])]
     /\ emitted' = {Event("request_accepted", HOSPITALS, me.rid)}
     /\ workers' = [workers EXCEPT ![w] = Finish(w, "ok")]
     /\ UNCHANGED <<donors, notifications, outcome, call>>

(* cancel_request *)
CancelLoad(w) ==
  /\ CanStart(w)
  /\ \E rid \in RequestIds :
       workers' = [workers EXCEPT ![w] = Start(w, "cancel_request", rid, 0, 0, "commit")]
  /\ emitted' = {}
  /\ UNCHANGED <<donors, requests, notifications, outcome, call>>

CancelCommit(w) ==
  LET me == workers[w]
  IN /\ me.pc = "commit" /\ me.op = "cancel_request"
     /\ requests' = [requests EXCEPT ![me.rid] =
                       Flush(@, me.br, [me.br EXCEPT !.status = "CANCELLED"])]
     /\ emitted' = {Event("request_cancelled", HOSPITALS, me.rid)}
     /\ workers' = [workers EXCEPT ![w] = Finish(w, "ok")]
     /\ UNCHANGED <<donors, notifications, outcome, call>>

(* hospital_mark_reached / hospital_mark_completed *)
MarkLoad(w) ==
  /\ CanStart(w)
  /\ \E rid \in RequestIds, op \in {"hospital_mark_reached", "hospital_mark_completed"} :
       workers' = [workers EXCEPT ![w] =
                     IF ~TruthyInt(requests[rid].accepted_donor_id)
                     THEN Reject(w, op, rid, 0, "no_donor_assigned")
                     ELSE Start(w, op, rid, 0, 0, "commit")]
  /\ emitted' = {}
  /\ UNCHANGED <<donors, requests, notifications, outcome, call>>

MarkCommit(w) ==
  LET me == workers[w]
      status == IF me.op = "hospital_mark_reached" THEN "DONOR_REACHED" ELSE "FULFILLED"
  IN /\ me.pc = "commit"
     /\ me.op \in {"hospital_mark_reached", "hospital_mark_completed"}
     /\ requests' = [requests EXCEPT ![me.rid] =
                       Flush(@, me.br, [me.br EXCEPT !.status = status])]
     (* the events carry the reloaded row's accepted_donor_id *)
     /\ emitted' = {Event("request_updated", HOSPITALS, me.rid)}
                     \cup (IF requests'[me.rid].accepted_donor_id = None THEN {}
                           ELSE {Event("request_status_change",
                                       DonorRoom(Val(requests'[me.rid].accepted_donor_id)),
                                       me.rid)})
     /\ workers' = [workers EXCEPT ![w] = Finish(w, "ok")]
     /\ UNCHANGED <<donors, notifications, outcome, call>>

(* cancel_assignment: load and check, commit, rank, notify loop *)
CancelAssignmentLoad(w) ==
  /\ CanStart(w)
  /\ \E rid \in RequestIds, d \in DonorIds :
       workers' = [workers EXCEPT ![w] =
                     IF requests[rid].accepted_donor_id # Some(d)
                     THEN Reject(w, "cancel_assignment", rid, d, "not_assigned")
                     ELSE Start(w, "cancel_assignment", rid, d, DEFAULT_TOP_K, "commit")]
  /\ emitted' = {}
  /\ UNCHANGED <<donors, requests, notifications, outcome, call>>

CancelAssignmentCommit(w) ==
  LET me == workers[w]
  IN /\ me.pc = "commit" /\ me.op = "cancel_assignment"
     /\ requests' = [requests EXCEPT ![me.rid] =
                       Flush(@, me.br, [me.br EXCEPT !.accepted_donor_id = None,
                                                     !.status = "OPEN",
                                                     !.assigned_at = None])]
     /\ emitted' = {Event("assignment_cancelled", DonorRoom(me.did), me.rid)}
     /\ workers' = [workers EXCEPT ![w].pc = "rank"]
     /\ UNCHANGED <<donors, notifications, outcome, call>>

(* hospital_reassign: load and check, rank, notify loop *)
ReassignLoad(w) ==
  /\ CanStart(w)
  /\ \E rid \in RequestIds, top_k \in FormTopK :
       workers' = [workers EXCEPT ![w] =
                     IF requests[rid].status \in {"CANCELLED", "FULFILLED"}
                     THEN Reject(w, "hospital_reassign", rid, 0, "closed")
                     ELSE Start(w, "hospital_reassign", rid, 0, top_k, "rank")]
  /\ emitted' = {}
  /\ UNCHANGED <<donors, requests, notifications, outcome, call>>

(* request_blood: insert the request and commit, rank, notify loop.  The    *)
(* table starts with one request, so one more may be created.              *)
RequestBloodInsert(w) ==
  /\ CanStart(w)
  /\ Len(requests) < MaxRequests + 1
  /\ \E blood \in FormGroups, top_k \in FormTopK :
       LET rid == Len(requests) + 1
           br == [required_blood_group |-> StrUpper(StrStrip(blood)),
                  latitude |-> 0, longitude |-> 0, status |-> "OPEN",
                  accepted_donor_id |-> None, assigned_at |-> None]
       IN /\ requests' = Append(requests, br)
          /\ workers' = [workers EXCEPT ![w] =
                           [Start(w, "request_blood", 0, 0, top_k, "rank")
                              EXCEPT !.rid = rid, !.br = br]]
  /\ emitted' = {}
  /\ UNCHANGED <<donors, notifications, outcome, call>>

(* ranked = find_best_donors(...) of request_blood, cancel_assignment and   *)
(* hospital_reassign                                                        *)
Rank(w) ==
  LET me == workers[w]
      br == requests[me.rid]
  IN /\ me.pc = "rank"
     /\ workers' = [workers EXCEPT
                      ![w].todo = IdsOf(find_best_donors(donors,
                                          Some(br.required_blood_group), br.latitude,
                                          br.longitude, me.top_k,
                                          DEFAULT_MAX_DISTANCE_KM)),
                      ![w].pc = "check"]
     /\ emitted' = {}
     /\ UNCHANGED <<donors, requests, notifications, outcome, call>>

(* One pass of the loop head: the existing-row query for the next donor *)
NotifyCheck(w) ==
  LET me == workers[w]
  IN /\ me.pc = "check" /\ me.op # "donor_share"
     /\ IF me.todo = <<>>
        THEN /\ workers' = [workers EXCEPT ![w] = Finish(w, "ok")]
             /\ emitted' = IF me.op = "request_blood"
                           THEN {Event("request_created", HOSPITALS, me.rid)}
                           ELSE {}
        ELSE /\ emitted' = {}
             /\ IF (me.op = "cancel_assignment" /\ Head(me.todo) = me.did)
                   \/ Existing(notifications, Head(me.todo), me.rid)
                THEN workers' = [workers EXCEPT ![w].todo = Tail(@)]
                ELSE workers' = [workers EXCEPT ![w].pc = "insert"]
     /\ UNCHANGED <<donors, requests, notifications, outcome, call>>

(* db.session.add(notif); db.session.commit(); push to the donor's room *)
NotifyInsert(w) ==
  LET me == workers[w]
  IN /\ me.pc = "insert" /\ me.op # "donor_share"
     /\ notifications' = notifications
                           (+) SetToBag({NotifRow(Head(me.todo), me.rid, "REQUEST")})
     /\ emitted' = {Event("request_notification", DonorRoom(Head(me.todo)), me.rid)}
     /\ workers' = [workers EXCEPT ![w].todo = Tail(@), ![w].pc = "check"]
     /\ UNCHANGED <<donors, requests, outcome, call>>

(* handle_donor_share: update the donor and commit, query the OPEN          *)
(* requests, then for each the distance test and existing-row query, and    *)
(* the insert                                                               *)
ShareCommit(w) ==
  /\ CanStart(w)
  /\ \E d \in DonorIds, lon \in ShareLons :
       IF lon = None
       THEN /\ workers' = [workers EXCEPT ![w] = Reject(w, "donor_share", 0, d, "invalid")]
            /\ UNCHANGED donors
       ELSE /\ donors' = [donors EXCEPT ![d].latitude = Some(0),
                                        ![d].longitude = lon,
                                        ![d].is_online = Some(TRUE),
                                        ![d].last_seen = Some(Timestamp)]
            /\ workers' = [workers EXCEPT ![w] = Start(w, "donor_share", 0, d, 0, "scan")]
  /\ emitted' = {}
  /\ UNCHANGED <<requests, notifications, outcome, call>>

ShareScan(w) ==
  LET me == workers[w]
      RECURSIVE OpenFrom(_)
      OpenFrom(r) == IF r > Len(requests) THEN <<>>
                     ELSE (IF requests[r].status = "OPEN" THEN <<r>> ELSE <<>>)
                            \o OpenFrom(r + 1)
  IN /\ me.pc = "scan"
     /\ workers' = [workers EXCEPT ![w].todo = OpenFrom(1), ![w].pc = "check"]
     /\ emitted' = {}
     /\ UNCHANGED <<donors, requests, notifications, outcome, call>>

ShareCheck(w) ==
  LET me == workers[w]
      d == donors[me.did]
  IN /\ me.pc = "check" /\ me.op = "donor_share"
     /\ IF me.todo = <<>>
        THEN /\ workers' = [workers EXCEPT ![w] = Finish(w, "ok")]
             /\ emitted' = {Event("donor_updated", BROADCAST, me.did)}
        ELSE LET br == requests[Head(me.todo)]
             IN /\ emitted' = {}
                /\ IF canonical_blood(Some(d.blood_group)) # None
                      /\ haversine_distance(br.latitude, br.longitude,
                                            Val(d.latitude), Val(d.longitude))
                           <= NEARBY_KM * 1000
                      /\ ~Existing(notifications, me.did, Head(me.todo))
                   THEN workers' = [workers EXCEPT ![w].pc = "insert"]
                   ELSE workers' = [workers EXCEPT ![w].todo = Tail(@)]
     /\ UNCHANGED <<donors, requests, notifications, outcome, call>>

ShareInsert(w) ==
  LET me == workers[w]
  IN /\ me.pc = "insert" /\ me.op = "donor_share"
     /\ notifications' = notifications
                           (+) SetToBag({NotifRow(me.did, Head(me.todo), "NEARBY")})
     /\ emitted' = {Event("nearby_request", DonorRoom(me.did), Head(me.todo))}
     /\ workers' = [workers EXCEPT ![w].todo = Tail(@), ![w].pc = "check"]
     /\ UNCHANGED <<donors, requests, outcome, call>>

NextConc ==
  \E w \in Workers :
    \/ AcceptLoad(w)
    \/ AcceptCommit(w)
    \/ CancelLoad(w)
    \/ CancelCommit(w)
    \/ MarkLoad(w)
    \/ MarkCommit(w)
    \/ CancelAssignmentLoad(w)
    \/ CancelAssignmentCommit(w)
    \/ ReassignLoad(w)
    \/ RequestBloodInsert(w)
    \/ Rank(w)
    \/ NotifyCheck(w)
    \/ NotifyInsert(w)
    \/ ShareCommit(w)
    \/ ShareScan(w)
    \/ ShareCheck(w)
    \/ ShareInsert(w)

SpecConc == InitConc /\ [][NextConc]_vars

----------------------------------------------------------------------------
(* Properties *)

AcceptedOk(w, rid, d) ==
  workers[w].last = Outcome("accept_request", rid, d, "ok")

(* C1: of two accept_request handlers run concurrently by two different    *)
(* donors on the same OPEN request, at most one succeeds.                   *)
C1_AtMostOneAcceptSucceeds ==
  \A w1, w2 \in DOMAIN workers : \A rid \in RequestIds : \A d1, d2 \in DonorIds :
    (w1 # w2 /\ d1 # d2) => ~(AcceptedOk(w1, rid, d1) /\ AcceptedOk(w2, rid, d2))

(* C2: an accept succeeds exactly on an OPEN request and then sets          *)
(* accepted_donor_id to the accepting donor, status to ACCEPTED and         *)
(* assigned_at to a timestamp; on any other status it is rejected as not    *)
(* open and leaves the request as it was.                                   *)
C2_AcceptOnlyWhenOpen ==
  [][outcome'.op = "accept_request" =>
       LET rid == outcome'.rid
       IN /\ requests' = [requests EXCEPT ![rid] = requests'[rid]]
          /\ IF requests[rid].status = "OPEN"
             THEN /\ outcome'.result = "ok"
                  /\ requests'[rid].accepted_donor_id = Some(outcome'.did)
                  /\ requests'[rid].status = "ACCEPTED"
                  /\ requests'[rid].assigned_at # None
             ELSE /\ outcome'.result = "not_open"
                  /\ requests'[rid] = requests[rid]]_vars

(* An accept was rejected on a request another donor holds *)
C2_Witness ==
  /\ outcome.op = "accept_request" /\ outcome.result = "not_open"
  /\ requests[outcome.rid].status = "ACCEPTED"
  /\ requests[outcome.rid].accepted_donor_id # None
  /\ requests[outcome.rid].accepted_donor_id # Some(outcome.did)
  /\ requests[outcome.rid].assigned_at # None

(* C3: accepted_donor_id is non-null only in ACCEPTED, DONOR_REACHED and    *)
(* FULFILLED.                                                               *)
C3_DonorOnlyWhenAssigned ==
  \A rid \in RequestIds :
    requests[rid].accepted_donor_id # None
      => requests[rid].status \in {"ACCEPTED", "DONOR_REACHED", "FULFILLED"}

(* C4: once a request is FULFILLED or CANCELLED no operation changes its    *)
(* status.                                                                  *)
C4_TerminalStatuses ==
  [][\A rid \in RequestIds :
       requests[rid].status \in {"FULFILLED", "CANCELLED"}
         => requests'[rid].status = requests[rid].status]_vars

(* C5: mark-reached and mark-completed on a request without an assigned     *)
(* donor fail with "no donor assigned" and change no field of it; with a    *)
(* donor assigned they set the status to DONOR_REACHED, respectively        *)
(* FULFILLED, and change nothing else.                                      *)
C5_MarkRequiresDonor ==
  [][outcome'.op \in {"hospital_mark_reached", "hospital_mark_completed"} =>
       LET rid == outcome'.rid
       IN IF requests[rid].accepted_donor_id = None
          THEN /\ outcome'.result = "no_donor_assigned"
               /\ requests' = requests
          ELSE /\ outcome'.result = "ok"
               /\ requests' =
                    [requests EXCEPT ![rid].status =
                       IF outcome'.op = "hospital_mark_reached"
                       THEN "DONOR_REACHED" ELSE "FULFILLED"]]_vars

(* Mark-reached was refused on a request that has no donor *)
C5_Witness ==
  /\ outcome.op = "hospital_mark_reached"
  /\ outcome.result = "no_donor_assigned"
  /\ requests[outcome.rid].accepted_donor_id = None
  /\ requests[outcome.rid].status = "OPEN"

RowsFor(d, rid) ==
  {row \in BagToSet(notifications) : row.donor_id = d /\ row.request_id = rid}

(* C6: with the handlers run one at a time there is at most one             *)
(* Notification row for every (donor, request) pair.                        *)
C6_OneNotificationPerPair ==
  \A d \in DonorIds : \A rid \in RequestIds :
    /\ Cardinality(RowsFor(d, rid)) <= 1
    /\ \A row \in RowsFor(d, rid) : CopiesIn(row, notifications) = 1

(* A reassign ran over a table that holds a NEARBY row of one donor and a   *)
(* REQUEST row of another for the request                                   *)
C6_Witness ==
  /\ outcome.op = "hospital_reassign" /\ outcome.result = "ok"
  /\ \E d1, d2 \in DonorIds :
       /\ RowsFor(d1, outcome.rid) = {NotifRow(d1, outcome.rid, "NEARBY")}
       /\ RowsFor(d2, outcome.rid) = {NotifRow(d2, outcome.rid, "REQUEST")}

RowCount(d, rid) ==
  LET types == {"REQUEST", "NEARBY"}
      RECURSIVE Sum(_)
      Sum(T) == IF T = {} THEN 0
                ELSE LET t == CHOOSE x \in T : TRUE
                     IN CopiesIn(NotifRow(d, rid, t), notifications) + Sum(T \ {t})
  IN Sum(types)

(* C7: with notifying handlers interleaved between the existing-row query   *)
(* and the insert there is still at most one Notification row per           *)
(* (donor, request) pair.                                                   *)
C7_NoDuplicateUnderRace ==
  \A d \in DonorIds : \A rid \in RequestIds : RowCount(d, rid) <= 1

Returned == {call.result[i].id : i \in 1..Len(call.result)}

(* C8: no donor with is_available, consent or health_clearance false is     *)
(* returned by find_best_donors.                                            *)
C8_NoFlaggedDonorReturned ==
  call.fn = "find_best_donors" =>
    \A i \in Returned :
      /\ donors[i].is_available # Some(FALSE)
      /\ donors[i].consent # Some(FALSE)
      /\ donors[i].health_clearance # Some(FALSE)

(* C9: for max_results >= 1 the returned list is in non-increasing score    *)
(* order, has at most max_results entries, and holds no donor without       *)
(* coordinates or farther than max_distance_km from the request.            *)
C9_SortedBoundedReachable ==
  (call.fn = "find_best_donors" /\ call.max_results >= 1) =>
    /\ Len(call.result) <= call.max_results
    /\ \A i, j \in 1..Len(call.result) :
         i < j => ~ScoreLess(call.result[i].score, call.result[j].score)
    /\ \A i \in Returned :
         /\ donors[i].latitude # None /\ donors[i].longitude # None
         /\ haversine_distance(call.req_lat, call.req_lon,
                               Val(donors[i].latitude), Val(donors[i].longitude))
              <= call.max_distance_km * 1000

(* Three donors, the farthest listed first and one out of reach: the two    *)
(* in reach are returned nearest first                                      *)
C9_Witness ==
  /\ call.fn = "find_best_donors" /\ call.max_results = 2
  /\ Len(donors) = 3 /\ Len(call.result) = 2
  /\ call.result[1].id > call.result[2].id
  /\ ScoreLess(call.result[2].score, call.result[1].score)
  /\ \E i \in DOMAIN donors :
       /\ i \notin Returned
       /\ donors[i].longitude # None /\ donors[i].latitude # None
       /\ haversine_distance(call.req_lat, call.req_lon,
                             Val(donors[i].latitude), Val(donors[i].longitude))
            > call.max_distance_km * 1000

(* C10: find_best_donors returns the empty list when max_results <= 0,      *)
(* when there is no donor and when every donor is filtered out.             *)
C10_EmptyResult ==
  call.fn = "find_best_donors" =>
    ((\/ call.max_results <= 0
      \/ donors = <<>>
      \/ \A i \in DOMAIN donors :
           \/ ~is_eligible(donors[i])
           \/ donors[i].latitude = None \/ donors[i].longitude = None
           \/ canonical_blood(call.required_group) = None
           \/ canonical_blood(Some(donors[i].blood_group))
                # canonical_blood(call.required_group)
              /\ canonical_blood(Some(donors[i].blood_group)) # Some(<<"O","-">>))
       => call.result = <<>>)

(* C11: a find_best_donors call changes no Donor row and no BloodRequest    *)
(* row and creates no Notification row.                                     *)
C11_RankingReadOnly ==
  [][call'.fn = "find_best_donors" =>
       /\ donors' = donors
       /\ requests' = requests
       /\ notifications' = notifications]_vars

(* A call that ranked two donors of the table *)
C11_Witness ==
  /\ call.fn = "find_best_donors"
  /\ Len(call.result) = 2
  /\ Len(donors) >= 2

EightGroups ==
  {<<"O","-">>, <<"O","+">>, <<"A","-">>, <<"A","+">>,
   <<"B","-">>, <<"B","+">>, <<"A","B","-">>, <<"A","B","+">>}

(* ABO antigens and Rh sign of a canonical group *)
Antigens(g) == {g[i] : i \in 1..(Len(g) - 1)} \ {"O"}

RhSign(g) == g[Len(g)]

(* The transfusion rule: the donor carries no antigen the recipient lacks *)
CanGive(d, r) ==
  /\ Antigens(d) \subseteq Antigens(r)
  /\ RhSign(d) = "-" \/ RhSign(r) = "+"

DonorGroup(i) == canonical_blood(Some(donors[i].blood_group))

(* C12: COMPATIBILITY is the transfusion table, with O- in every set; a     *)
(* returned donor's normalized group may give to the normalized requested   *)
(* group, and for a requested group outside the table only donors of that   *)
(* very group are returned.                                                 *)
C12_CompatibleDonorsOnly ==
  /\ DOMAIN COMPATIBILITY = EightGroups
  /\ \A r \in EightGroups :
       /\ COMPATIBILITY[r] = {d \in EightGroups : CanGive(d, r)}
       /\ <<"O","-">> \in COMPATIBILITY[r]
  /\ call.fn = "find_best_donors" =>
       LET req == canonical_blood(call.required_group)
       IN \A i \in Returned :
            /\ req # None /\ DonorGroup(i) # None
            /\ IF Val(req) \in EightGroups
               THEN /\ Val(DonorGroup(i)) \in EightGroups
                    /\ CanGive(Val(DonorGroup(i)), Val(req))
               ELSE DonorGroup(i) = req

(* A request for a group outside the table returned the donor of that group *)
(* and passed over an eligible O- donor in reach                            *)
C12_Witness ==
  /\ call.fn = "find_best_donors"
  /\ canonical_blood(call.required_group) = Some(<<"X","X">>)
  /\ Len(call.result) = 1
  /\ \E i \in DOMAIN donors :
       /\ i \notin Returned
       /\ DonorGroup(i) = Some(<<"O","-">>)
       /\ is_eligible(donors[i])
       /\ donors[i].latitude # None /\ donors[i].longitude # None

(* C13: canonical_blood returns null or one of the eight canonical groups   *)
(* for every input: null for empty input and for text that spells no group, *)
(* and the group itself for each of its noisy spellings (case, whitespace,  *)
(* POS/NEG, +VE/-VE, the words positive/negative).                          *)
C13_CanonicalOrNull ==
  call.fn = "canonical_blood" =>
    /\ call.result = None \/ Val(call.result) \in EightGroups
    /\ (call.bg = None \/ Val(call.bg) = <<>>) => call.result = None
    /\ \A pad \in CanonPads, abo \in CanonABO, sep \in CanonPads :
         /\ \A rh \in CanonPlus :
              (abo # <<"X">> /\ call.bg = Some(Spelling(pad, abo, sep, rh)))
                => call.result = Some(StrUpper(abo) \o <<"+">>)
         /\ \A rh \in CanonMinus :
              (abo # <<"X">> /\ call.bg = Some(Spelling(pad, abo, sep, rh)))
                => call.result = Some(StrUpper(abo) \o <<"-">>)
         /\ \A rh \in CanonPlus \cup CanonMinus :
              call.bg = Some(Spelling(pad, <<"X">>, sep, rh)) => call.result = None

DaysSince(d) == TodayOrdinal - Val(d.last_donation_date)

(* Every rule other than the cooldown lets the donor through *)
OtherFieldsPass(d) ==
  /\ d.is_available = Some(TRUE) /\ d.consent = Some(TRUE)
  /\ d.health_clearance = Some(TRUE)
  /\ d.weight_kg # None /\ Val(d.weight_kg) >= 50
  /\ LET a == IF d.age # None THEN d.age
              ELSE IF d.dob # None THEN Some(AgeFromDob(Val(d.dob))) ELSE None
     IN a # None /\ Val(a) >= 18 /\ Val(a) <= 65

(* C14: a donor who donated less than 90 days before the evaluation is      *)
(* ineligible and is not returned by find_best_donors; a donor who donated  *)
(* 90 or more days before, or never, and passes the other rules is          *)
(* eligible and is returned.                                                *)
C14_CooldownNinetyDays ==
  call.fn = "is_eligible" =>
    LET d == donors[1]
    IN /\ (d.last_donation_date # None /\ DaysSince(d) < 90) =>
            /\ ~call.result
            /\ ~call.app_result.eligible
            /\ call.ranked = <<>>
       /\ ((d.last_donation_date = None \/ DaysSince(d) >= 90)
             /\ OtherFieldsPass(d)) =>
            /\ call.result
            /\ call.app_result.eligible
            /\ Len(call.ranked) = 1

(* A donor exactly 90 days after the last donation was found eligible and   *)
(* was returned                                                             *)
C14_Witness ==
  /\ call.fn = "is_eligible"
  /\ donors[1].last_donation_date # None
  /\ DaysSince(donors[1]) = 90
  /\ call.result /\ call.app_result.eligible
  /\ Len(call.ranked) = 1 /\ call.ranked[1].id = 1

(* C15: a donor with no weight, with neither age nor date of birth, or with *)
(* no (null) health clearance is ineligible and is not returned by          *)
(* find_best_donors.                                                        *)
C15_MissingDataIneligible ==
  call.fn = "is_eligible" =>
    LET d == donors[1]
    IN (\/ d.weight_kg = None
        \/ (d.age = None /\ d.dob = None)
        \/ d.health_clearance = None)
         => /\ ~call.result
            /\ ~call.app_result.eligible
            /\ call.ranked = <<>>

(* Ids of the donors the ranking of request rid returns for the top k *)
RankedIdsOf(pool, br, k) ==
  LET ranked == find_best_donors(pool, Some(br.required_blood_group),
                                 br.latitude, br.longitude,
                                 k, DEFAULT_MAX_DISTANCE_KM)
  IN {ranked[i].id : i \in 1..Len(ranked)}

RankedIds(rid, k) == RankedIdsOf(donors, requests[rid], k)

(* C16: a successful cancel-assignment leaves the request OPEN with no      *)
(* accepted donor and no assignment time, pushes assignment_cancelled to    *)
(* the removed donor's room, adds no Notification row for that donor, and   *)
(* leaves every other donor of the new ranking with a row, a new REQUEST    *)
(* row if the donor had none.                                               *)
C16_CancelAssignmentReopens ==
  [][(outcome'.op = "cancel_assignment" /\ outcome'.result = "ok") =>
       LET rid == outcome'.rid
           did == outcome'.did
       IN /\ requests'[rid].status = "OPEN"
          /\ requests'[rid].accepted_donor_id = None
          /\ requests'[rid].assigned_at = None
          /\ Event("assignment_cancelled", DonorRoom(did), rid) \in emitted'
          /\ \A t \in {"REQUEST", "NEARBY"} :
               CopiesIn(NotifRow(did, rid, t), notifications')
                 = CopiesIn(NotifRow(did, rid, t), notifications)
          /\ \A d \in RankedIds(rid, 10) \ {did} :
               IF Existing(notifications, d, rid)
               THEN \A t \in {"REQUEST", "NEARBY"} :
                      CopiesIn(NotifRow(d, rid, t), notifications')
                        = CopiesIn(NotifRow(d, rid, t), notifications)
               ELSE CopiesIn(NotifRow(d, rid, "REQUEST"), notifications') = 1]_vars

(* The assignment of a donor who is in the ranking and was never notified   *)
(* was cancelled: the donor still has no row, another donor has one         *)
C16_Witness ==
  /\ outcome.op = "cancel_assignment" /\ outcome.result = "ok"
  /\ outcome.did \in RankedIds(outcome.rid, 10)
  /\ ~Existing(notifications, outcome.did, outcome.rid)
  /\ \E d \in DonorIds \ {outcome.did} : Existing(notifications, d, outcome.rid)
  /\ requests[outcome.rid].status = "OPEN"

(* C17: a hospital reassign never changes a request's status, accepted      *)
(* donor or assignment time; it is rejected, adding no Notification row,    *)
(* exactly when the status is CANCELLED or FULFILLED, and otherwise it runs *)
(* and leaves every ranked donor with a row.                                *)
C17_ReassignOnlyNotifies ==
  [][outcome'.op = "hospital_reassign" =>
       LET rid == outcome'.rid
       IN /\ requests' = requests
          /\ IF requests[rid].status \in {"CANCELLED", "FULFILLED"}
             THEN /\ outcome'.result = "closed"
                  /\ notifications' = notifications
             ELSE /\ outcome'.result = "ok"
                  /\ \A row \in BagToSet(notifications) :
                       CopiesIn(row, notifications') = CopiesIn(row, notifications)
                  /\ \E k \in FormTopK :
                       \A d \in RankedIds(rid, k) : Existing(notifications', d, rid)]_vars

(* A reassign on a request whose donor has reached the hospital notified a  *)
(* further donor and left the assignment in place                           *)
C17_Witness ==
  /\ outcome.op = "hospital_reassign" /\ outcome.result = "ok"
  /\ requests[outcome.rid].status = "DONOR_REACHED"
  /\ requests[outcome.rid].accepted_donor_id # None
  /\ \E d \in DonorIds : Event("request_notification", DonorRoom(d), outcome.rid) \in emitted

(* C18: every step that creates a request or changes a request's status     *)
(* (create, accept, cancel, cancel-assignment, mark-reached,                *)
(* mark-completed) emits an event about that request to the hospitals room. *)
C18_StatusChangeReachesHospitals ==
  [][\A rid \in DOMAIN requests' :
       (rid \notin DOMAIN requests \/ requests'[rid].status # requests[rid].status)
         => \E e \in emitted' : e.room = HOSPITALS /\ e.id = rid]_vars

(* C19: a create with malformed coordinates, or with a blood group that is  *)
(* empty or not one of the eight canonical groups, adds no BloodRequest row *)
(* and no Notification row.                                                 *)
C19_InvalidCreateStoresNothing ==
  [][outcome'.op = "request_blood" =>
       /\ outcome'.result = "invalid_coordinates" =>
            (requests' = requests /\ notifications' = notifications)
       /\ \A rid \in DOMAIN requests' \ DOMAIN requests :
            requests'[rid].required_blood_group \in EightGroups]_vars

StatusEdges ==
  {<<"OPEN", "ACCEPTED">>, <<"ACCEPTED", "DONOR_REACHED">>,
   <<"DONOR_REACHED", "FULFILLED">>, <<"ACCEPTED", "OPEN">>,
   <<"OPEN", "CANCELLED">>, <<"ACCEPTED", "CANCELLED">>,
   <<"DONOR_REACHED", "CANCELLED">>}

(* C20: a request is created OPEN and every change of its status follows    *)
(* one of the edges OPEN -> ACCEPTED, ACCEPTED -> DONOR_REACHED,            *)
(* DONOR_REACHED -> FULFILLED, ACCEPTED -> OPEN, or a non-terminal status   *)
(* -> CANCELLED.                                                            *)
C20_StatusEdgesOnly ==
  [][\A rid \in DOMAIN requests' :
       IF rid \in DOMAIN requests
       THEN requests'[rid].status # requests[rid].status
              => <<requests[rid].status, requests'[rid].status>> \in StatusEdges
       ELSE requests'[rid].status = "OPEN"]_vars

(* The conditions of a NEARBY row for donor did and request rid, on the     *)
(* tables before the push and the donor's position after it                 *)
NearbyDue(did, rid) ==
  /\ requests[rid].status = "OPEN"
  /\ canonical_blood(Some(donors[did].blood_group)) # None
  /\ haversine_distance(requests[rid].latitude, requests[rid].longitude,
                        Val(donors'[did].latitude), Val(donors'[did].longitude))
       <= 10 * 1000
  /\ ~Existing(notifications, did, rid)

(* C21: a location push sets the donor's coordinates, online flag and       *)
(* last-seen, changes no BloodRequest field and no other donor, and adds    *)
(* one NEARBY row for a request exactly when the request is OPEN, the       *)
(* donor's normalized group is non-null, the distance is at most 10 km and  *)
(* the pair has no row yet, whatever the donor's eligibility or group       *)
(* compatibility; it adds no other row.                                     *)
C21_ShareNotifiesNearbyOpen ==
  [][(outcome'.op = "donor_share" /\ outcome'.result = "ok") =>
       LET did == outcome'.did
       IN /\ donors'[did].latitude # None /\ donors'[did].longitude # None
          /\ donors'[did].is_online = Some(TRUE)
          /\ donors'[did].last_seen # None
          /\ \A d \in DOMAIN donors \ {did} : donors'[d] = donors[d]
          /\ requests' = requests
          /\ \A rid \in DOMAIN requests :
               CopiesIn(NotifRow(did, rid, "NEARBY"), notifications')
                 = CopiesIn(NotifRow(did, rid, "NEARBY"), notifications)
                     + (IF NearbyDue(did, rid) THEN 1 ELSE 0)
          /\ \A row \in BagToSet(notifications') :
               (row.donor_id # did \/ row.notif_type # "NEARBY")
                 => CopiesIn(row, notifications') = CopiesIn(row, notifications)]_vars

(* A donor the eligibility rules reject got a NEARBY row for the one OPEN   *)
(* request of two in the table                                              *)
C21_Witness ==
  /\ outcome.op = "donor_share" /\ outcome.result = "ok"
  /\ ~is_eligible(donors[outcome.did])
  /\ Len(requests) = 2
  /\ \E r1, r2 \in DOMAIN requests :
       /\ requests[r1].status = "OPEN" /\ requests[r2].status # "OPEN"
       /\ Event("nearby_request", DonorRoom(outcome.did), r1) \in emitted
       /\ RowsFor(outcome.did, r1) = {NotifRow(outcome.did, r1, "NEARBY")}
       /\ RowsFor(outcome.did, r2) = {}

(* C22: a successful create appends a request with status OPEN and no       *)
(* accepted donor, and when it finishes the donors holding a Notification   *)
(* row for the request are exactly the donors its ranking returned, each    *)
(* with one row of type REQUEST.                                            *)
C22_CreateNotifiesRanked ==
  [][(outcome'.op = "request_blood" /\ outcome'.result = "ok") =>
       LET rid == outcome'.rid
       IN /\ rid \notin DOMAIN requests
          /\ DOMAIN requests' = DOMAIN requests \cup {rid}
          /\ requests'[rid].status = "OPEN"
          /\ requests'[rid].accepted_donor_id = None
          /\ \E k \in FormTopK :
               \A d \in DonorIds :
                 /\ CopiesIn(NotifRow(d, rid, "NEARBY"), notifications') = 0
                 /\ CopiesIn(NotifRow(d, rid, "REQUEST"), notifications')
                      = IF d \in RankedIdsOf(donors, requests'[rid], k) THEN 1 ELSE 0]_vars

(* A create for the top donor only: the nearest donor has the row, the      *)
(* second donor of the full ranking has none                                *)
C22_Witness ==
  /\ outcome.op = "request_blood" /\ outcome.result = "ok"
  /\ \E d1, d2 \in DonorIds :
       /\ RankedIds(outcome.rid, 1) = {d1}
       /\ d2 \in RankedIds(outcome.rid, 10) \ {d1}
       /\ RowsFor(d1, outcome.rid) = {NotifRow(d1, outcome.rid, "REQUEST")}
       /\ RowsFor(d2, outcome.rid) = {}

Online(i) == Truthy(donors[i].is_online)

(* C23: every returned donor's score is 1/(distance_km + 0.1), times 1.3    *)
(* when the donor is online; of two returned donors with the same online    *)
(* flag the strictly closer one comes first, and at equal distance an       *)
(* online donor comes before an offline one; for an A+ request at (0,0)     *)
(* with D1 = A+ online at distance 0 and D2 = O- offline about 111 km away, *)
(* radius 60 km, only D1 is returned, with score 13.                        *)
C23_ScoreOrder ==
  call.fn = "find_best_donors" =>
    LET res == call.result
    IN /\ \A i \in 1..Len(res) :
            ScoreEq(res[i].score,
                    <<IF Online(res[i].id) THEN 13000 ELSE 10000,
                      10 * res[i].dist + 1000>>)
       /\ \A i, j \in 1..Len(res) :
            /\ (Online(res[i].id) = Online(res[j].id) /\ res[i].dist < res[j].dist)
                 => i < j
            /\ (res[i].dist = res[j].dist /\ Online(res[i].id) /\ ~Online(res[j].id))
                 => i < j
       /\ (/\ donors = <<[BaseDonor EXCEPT !.is_online = Some(TRUE)],
                         [BaseDonor EXCEPT !.longitude = Some(100),
                                           !.blood_group = <<"O","-">>]>>
           /\ canonical_blood(call.required_group) = Some(<<"A","+">>)
           /\ call.req_lon = 0 /\ call.max_results >= 1)
            => /\ Len(res) = 1 /\ res[1].id = 1
               /\ res[1].score[1] = 13 * res[1].score[2]

(* The scenario of the two donors D1 and D2, and D1 returned alone *)
C23_Witness ==
  /\ call.fn = "find_best_donors"
  /\ Len(donors) = 2
  /\ donors[1].is_online = Some(TRUE) /\ donors[1].longitude = Some(0)
  /\ donors[1].blood_group = <<"A","+">>
  /\ donors[2].blood_group = <<"O","-">> /\ donors[2].longitude = Some(100)
  /\ canonical_blood(call.required_group) = Some(<<"A","+">>)
  /\ call.req_lon = 0 /\ call.max_results = 10
  /\ Len(call.result) = 1 /\ call.result[1].id = 1
  /\ haversine_distance(0, 0, 0, 100) > 110000

(* C24: two returned donors with equal score appear in the output in the    *)
(* order of the donor enumeration.                                          *)
C24_StableTies ==
  call.fn = "find_best_donors" =>
    \A i, j \in 1..Len(call.result) :
      (i < j /\ ScoreEq(call.result[i].score, call.result[j].score))
        => call.result[i].id < call.result[j].id

(* Two donors of equal score enumerated before a donor of higher score: the *)
(* sort moved the third donor to the front and kept the two in their order  *)
C24_Witness ==
  /\ call.fn = "find_best_donors"
  /\ Len(call.result) = 3
  /\ call.result[1].id = 3 /\ call.result[2].id = 1 /\ call.result[3].id = 2
  /\ ScoreEq(call.result[2].score, call.result[3].score)
  /\ ScoreLess(call.result[2].score, call.result[1].score)

(* C25: whichever pushes and SMS sends raise during a handler, the change   *)
(* the handler commits stays: accept, cancel, cancel-assignment,            *)
(* mark-reached and mark-completed leave the status and accepted donor they *)
(* set, no Notification row is removed, and create and reassign leave every *)
(* donor of their ranking with a row.                                       *)
C25_FailuresKeepMutation ==
  [][LET op == outcome'.op
         rid == outcome'.rid
         did == outcome'.did
     IN /\ \A row \in BagToSet(notifications) :
             CopiesIn(row, notifications') >= CopiesIn(row, notifications)
        /\ (op = "accept_request" /\ requests[rid].status = "OPEN") =>
             /\ requests'[rid].status = "ACCEPTED"
             /\ requests'[rid].accepted_donor_id = Some(did)
        /\ op = "cancel_request" => requests'[rid].status = "CANCELLED"
        /\ (op = "cancel_assignment" /\ requests[rid].accepted_donor_id = Some(did)) =>
             /\ requests'[rid].status = "OPEN"
             /\ requests'[rid].accepted_donor_id = None
             /\ \A d \in RankedIds(rid, 10) \ {did} : Existing(notifications', d, rid)
        /\ (op = "hospital_mark_reached" /\ TruthyInt(requests[rid].accepted_donor_id)) =>
             requests'[rid].status = "DONOR_REACHED"
        /\ (op = "hospital_mark_completed" /\ TruthyInt(requests[rid].accepted_donor_id)) =>
             requests'[rid].status = "FULFILLED"
        /\ (op = "request_blood" /\ outcome'.result # "invalid_coordinates") =>
             /\ DOMAIN requests' = DOMAIN requests \cup {rid}
             /\ requests'[rid].status = "OPEN"
             /\ \A d \in RankedIdsOf(donors, requests'[rid], outcome'.top_k) :
                  CopiesIn(NotifRow(d, rid, "REQUEST"), notifications') = 1
        /\ (op = "hospital_reassign" /\ outcome'.result # "closed") =>
             \A d \in RankedIds(rid, outcome'.top_k) : Existing(notifications', d, rid)]_vars

(* A create whose push to the first ranked donor raised: that donor has the *)
(* row without the push, and the second ranked donor has the row and the    *)
(* push                                                                     *)
C25_Witness ==
  /\ outcome.op = "request_blood" /\ outcome.result = "ok"
  /\ \E d1, d2 \in DonorIds :
       /\ RankedIds(outcome.rid, 1) = {d1}
       /\ d2 \in RankedIds(outcome.rid, 10) \ {d1}
       /\ RowsFor(d1, outcome.rid) = {NotifRow(d1, outcome.rid, "REQUEST")}
       /\ RowsFor(d2, outcome.rid) = {NotifRow(d2, outcome.rid, "REQUEST")}
       /\ Event("request_notification", DonorRoom(d1), outcome.rid) \notin emitted
       /\ Event("request_notification", DonorRoom(d2), outcome.rid) \in emitted

(* C26: with the handlers run one at a time, a request whose status is      *)
(* ACCEPTED, DONOR_REACHED or FULFILLED has an accepted donor.              *)
C26_AssignedStatusNamesDonor ==
  \A rid \in RequestIds :
    requests[rid].status \in {"ACCEPTED", "DONOR_REACHED", "FULFILLED"}
      => requests[rid].accepted_donor_id # None

(* A request marked reached that names its donor, who was told of the change *)
C26_Witness ==
  /\ outcome.op = "hospital_mark_reached" /\ outcome.result = "ok"
  /\ requests[outcome.rid].status = "DONOR_REACHED"
  /\ requests[outcome.rid].accepted_donor_id # None
  /\ \E d \in DonorIds :
       /\ requests[outcome.rid].accepted_donor_id = Some(d)
       /\ Event("request_status_change", DonorRoom(d), outcome.rid) \in emitted

(* C27: when a cancel-assignment and a mark-reached or mark-completed on    *)
(* the same request were run by two threads and both went through, the      *)
(* request is not left DONOR_REACHED or FULFILLED without an accepted       *)
(* donor.                                                                   *)
C27_CancelAssignmentMarkRace ==
  \A w1, w2 \in DOMAIN workers : \A rid \in RequestIds : \A d \in DonorIds :
    (/\ w1 # w2
     /\ workers[w1].pc = "idle" /\ workers[w2].pc = "idle"
     /\ workers[w1].last = Outcome("cancel_assignment", rid, d, "ok")
     /\ \/ workers[w2].last = Outcome("hospital_mark_reached", rid, 0, "ok")
        \/ workers[w2].last = Outcome("hospital_mark_completed", rid, 0, "ok"))
      => ~(/\ requests[rid].status \in {"DONOR_REACHED", "FULFILLED"}
           /\ requests[rid].accepted_donor_id = None)

(* C28: after every step each request has assigned_at set exactly when      *)
(* accepted_donor_id is set; a step that changes either field is a          *)
(* successful accept, which sets both, or a successful cancel-assignment,   *)
(* which clears both.                                                       *)
C28_AssignedAtIffDonor ==
  [][\A rid \in DOMAIN requests' :
       /\ (requests'[rid].assigned_at # None) <=> (requests'[rid].accepted_donor_id # None)
       /\ (/\ rid \in DOMAIN requests
           /\ \/ requests'[rid].assigned_at # requests[rid].assigned_at
              \/ requests'[rid].accepted_donor_id # requests[rid].accepted_donor_id)
            => /\ outcome'.rid = rid /\ outcome'.result = "ok"
               /\ \/ /\ outcome'.op = "accept_request"
                     /\ requests'[rid].accepted_donor_id = Some(outcome'.did)
                     /\ requests'[rid].assigned_at # None
                  \/ /\ outcome'.op = "cancel_assignment"
                     /\ requests'[rid].accepted_donor_id = None
                     /\ requests'[rid].assigned_at = None]_vars

(* A cancelled request that keeps its donor and its assignment time *)
C28_Witness ==
  /\ outcome.op = "cancel_request"
  /\ requests[outcome.rid].status = "CANCELLED"
  /\ requests[outcome.rid].accepted_donor_id # None
  /\ requests[outcome.rid].assigned_at # None

(* C29: a cancel-assignment naming a donor who is not the request's         *)
(* accepted donor, or on a request with no accepted donor, is refused and   *)
(* changes no request field, adds no Notification row and sends nothing.    *)
C29_CancelAssignmentWrongDonor ==
  [][(/\ outcome'.op = "cancel_assignment"
      /\ requests[outcome'.rid].accepted_donor_id # Some(outcome'.did)) =>
       /\ outcome'.result = "not_assigned"
       /\ requests' = requests
       /\ notifications' = notifications
       /\ emitted' = {}]_vars

(* A cancel-assignment naming another donor than the one who accepted was   *)
(* refused                                                                  *)
C29_Witness ==
  /\ outcome.op = "cancel_assignment" /\ outcome.result = "not_assigned"
  /\ requests[outcome.rid].status = "ACCEPTED"
  /\ requests[outcome.rid].accepted_donor_id # None
  /\ requests[outcome.rid].accepted_donor_id # Some(outcome.did)

(* C30: no step removes or rewrites a Notification row, and a donor who     *)
(* holds a NEARBY or REQUEST row for a request gets no further row and no   *)
(* further request_notification push for it from any later handler run,     *)
(* also after the request was reopened.                                     *)
C30_NotifiedOncePerRequest ==
  [][/\ \A row \in BagToSet(notifications) :
          CopiesIn(row, notifications') = CopiesIn(row, notifications)
     /\ \A d \in DonorIds : \A rid \in DOMAIN requests :
          Existing(notifications, d, rid) =>
            /\ \A t \in {"REQUEST", "NEARBY"} :
                 CopiesIn(NotifRow(d, rid, t), notifications')
                   = CopiesIn(NotifRow(d, rid, t), notifications)
            /\ Event("request_notification", DonorRoom(d), rid) \notin emitted']_vars

(* A cancel-assignment reopened the request and its new round passed over a *)
(* ranked donor who already held the row                                    *)
C30_Witness ==
  /\ outcome.op = "cancel_assignment" /\ outcome.result = "ok"
  /\ requests[outcome.rid].status = "OPEN"
  /\ \E d \in RankedIds(outcome.rid, 10) \ {outcome.did} :
       /\ RowCount(d, outcome.rid) = 1
       /\ Event("request_notification", DonorRoom(d), outcome.rid) \notin emitted


-----------------------------------------------------------------------------
(* C31: the two eligibility implementations agree on every donor record:   *)
(* matching.is_eligible returns true exactly when app.is_donor_eligible    *)
(* returns (True, "Eligible"), over all combinations of availability,      *)
(* consent, health clearance (true / false / null), weight, age / date of  *)
(* birth and last donation date.                                           *)
C31_EligibilityImplementationsAgree ==
  call.fn = "is_eligible" =>
    (call.result <=> (call.app_result.eligible /\ call.app_result.reason = "Eligible"))

====
